---- MODULE Spec2Model ----
(***************************************************************************)
(* A model of the similarity engine of src/jplag-algorithm.ts:             *)
(*   - GreedyStringTiling.compare and its helpers, as a loop that is       *)
(*     stepped one iteration at a time (specification Spec), and as the    *)
(*     function it computes (operator compare);                            *)
(*   - StructuralTokenizer, SimpleStructuralParser and SimpleJPlag.compare *)
(*     (operator jplagCompare), called in one step (EngineSpec).           *)
(* Token indices are 0-based as in the source; a TLA+ sequence t holds the *)
(* token of index i at t[i + 1].                                           *)
(* A similarity is a quotient of two small integers; it is kept as the     *)
(* fraction [num, den] and compared by cross-multiplication, which orders  *)
(* and identifies such quotients exactly as their IEEE doubles do.         *)
(***************************************************************************)
EXTENDS Integers, Sequences, FiniteSets, TLC

\* ------------------------------------------------------------------ bounds
\* longest token sequence handed to GreedyStringTiling.compare
MaxLen == 3
\* longest token sequence of the calls over two token types (LongSpec)
MaxLongLen == 4
\* largest minimumTokenMatch tried (the smallest is -1)
MaxMinimumTokenMatch == 2

\* most lines of a source handed to SimpleJPlag.compare
MaxLines == 2
\* most reports createReport is called for
MaxReports == 2
\* most lines of a source the structural parser is run on
MaxParserLines == 3
\* SubmissionCache.maxSize, scaled down from the 1000 of the source
MaxSize == 2
\* most lookups counted in hitCount and missCount between two calls of clear
MaxCounted == 2
\* most reports createReport is called for where termination is checked
MaxLiveReports == 1
\* the number of times a line is repeated in the long sources handed to the
\* analyzer: six lines of two tokens reach its minimumTokenMatch of 12
LongSourceLines == 6

\* ------------------------------------------------------------------ values
Null == [null |-> TRUE]

Frac(n, d) == [num |-> n, den |-> d]
One == Frac(1, 1)
Zero == Frac(0, 1)
FracEq(a, b) == a.num * b.den = b.num * a.den
FracLt(a, b) == a.num * b.den < b.num * a.den
FracLe(a, b) == a.num * b.den <= b.num * a.den
RECURSIVE Gcd(_, _)
Gcd(a, b) == IF b = 0 THEN a ELSE Gcd(b, a % b)

\* a fraction in lowest terms (the arithmetic of the analyzers is on numbers,
\* kept here as exact fractions)
Lowest(n, d) ==
    LET g == Gcd(IF n < 0 THEN 0 - n ELSE n, d)
    IN  IF g = 0 THEN Frac(n, d) ELSE Frac(n \div g, d \div g)

FracAdd(a, b) == Lowest(a.num * b.den + b.num * a.den, a.den * b.den)
FracSub(a, b) == Lowest(a.num * b.den - b.num * a.den, a.den * b.den)
FracMul(a, b) == Lowest(a.num * b.num, a.den * b.den)
FracAbs(a) == IF a.num < 0 THEN Frac(0 - a.num, a.den) ELSE a
FracMin(a, b) == IF FracLe(a, b) THEN a ELSE b

\* the result of 0 / 0
NaN == [nan |-> TRUE]

\* the tokens the matcher is tried on: two types, and two values of one type,
\* so that type-only and type-and-value equality differ
TokenUniverse ==
    { [type |-> "IF_BEGIN", value |-> "if (a) {"],
      [type |-> "IF_BEGIN", value |-> "if (b) {"],
      [type |-> "ASSIGN",   value |-> "x = 1;"] }

\* the tokens of the longer calls: two types
TwoTypes ==
    { [type |-> "ASSIGN", value |-> "x = 1;"],
      [type |-> "APPLY",  value |-> "f(x);"] }

SeqsUpTo(S, n) == UNION { [1..k -> S] : k \in 0..n }

MinimumTokenMatchValues == (0 - 1)..MaxMinimumTokenMatch

\* the options GreedyStringTiling reads
GstOptions ==
    [minimumTokenMatch : MinimumTokenMatchValues,
     extractStructuralTokensOnly : BOOLEAN]

Range(lo, len) == { lo + k : k \in 0..(len - 1) }

\* a value a method computes once and keeps in a local: F applied to the value
\* of e
Local(e, F(_)) == CHOOSE r \in { F(x) : x \in { e } } : TRUE

SeqRange(s) == { s[k] : k \in 1..Len(s) }

\* ------------------------------------------------------- GreedyStringTiling
\* variant: the values are never compared
tokensEqualTypeOnly(token1, token2, o) == token1.type = token2.type

tokensEqual(token1, token2, o) ==
    IF o.extractStructuralTokensOnly
    THEN token1.type = token2.type
    ELSE IF token1.type # token2.type THEN FALSE
         ELSE token1.value = token2.value

\* the while loop of extendMatch: the number of times its body runs from (i, j)
RECURSIVE RunLength(_, _, _, _, _, _, _)
RunLength(tokens1, tokens2, i, j, marked1, marked2, o) ==
    IF /\ i < Len(tokens1)
       /\ j < Len(tokens2)
       /\ i \notin marked1
       /\ j \notin marked2
       /\ tokensEqual(tokens1[i + 1], tokens2[j + 1], o)
    THEN 1 + RunLength(tokens1, tokens2, i + 1, j + 1, marked1, marked2, o)
    ELSE 0

\* extendMatch with the two marked tests of its loop left out
extendMatchIgnoringMarks(tokens1, tokens2, start1, start2, marked1, marked2, o) ==
    LET length == RunLength(tokens1, tokens2, start1, start2, {}, {}, o)
    IN  IF length >= o.minimumTokenMatch
        THEN [startOfFirst |-> start1, startOfSecond |-> start2,
              lengthOfFirst |-> length, lengthOfSecond |-> length,
              similarity |-> One]
        ELSE Null

\* extendMatch with lengthOfSecond taken from the end index j and the wrong start
extendMatchWrongSecondLength(tokens1, tokens2, start1, start2, marked1, marked2, o) ==
    LET length == RunLength(tokens1, tokens2, start1, start2, marked1, marked2, o)
    IN  IF length >= o.minimumTokenMatch
        THEN [startOfFirst |-> start1, startOfSecond |-> start2,
              lengthOfFirst |-> length, lengthOfSecond |-> (start2 + length) - start1,
              similarity |-> One]
        ELSE Null

\* extendMatch leaving its loop one turn early on a run of two or more tokens
extendMatchOneShort(tokens1, tokens2, start1, start2, marked1, marked2, o) ==
    LET run == RunLength(tokens1, tokens2, start1, start2, marked1, marked2, o)
        length == IF run >= 2 THEN run - 1 ELSE run
    IN  IF length >= o.minimumTokenMatch
        THEN [startOfFirst |-> start1, startOfSecond |-> start2,
              lengthOfFirst |-> length, lengthOfSecond |-> length,
              similarity |-> One]
        ELSE Null

extendMatch(tokens1, tokens2, start1, start2, marked1, marked2, o) ==
    LET length == RunLength(tokens1, tokens2, start1, start2, marked1, marked2, o)
    IN  IF length >= o.minimumTokenMatch
        THEN [startOfFirst |-> start1, startOfSecond |-> start2,
              lengthOfFirst |-> length, lengthOfSecond |-> length,
              similarity |-> One]
        ELSE Null

\* ScanStep keeping the first match found instead of the longest
ScanStepKeepsFirst(tokens1, tokens2, i, j, marked1, marked2, o, best) ==
    IF i \in marked1 \/ j \in marked2 THEN best
    ELSE CHOOSE r \in
             { IF match # Null /\ match.lengthOfFirst > 0 /\ best.bestMatch = Null
               THEN [bestMatch |-> match, maxLength |-> match.lengthOfFirst]
               ELSE best :
               match \in { extendMatch(tokens1, tokens2, i, j, marked1, marked2, o) } } :
             TRUE

\* ScanStep with >= for >, so that a run of length 0 is a match
ScanStepAcceptsEmpty(tokens1, tokens2, i, j, marked1, marked2, o, best) ==
    IF i \in marked1 \/ j \in marked2 THEN best
    ELSE CHOOSE r \in
             { IF match # Null /\ match.lengthOfFirst >= best.maxLength
               THEN [bestMatch |-> match, maxLength |-> match.lengthOfFirst]
               ELSE best :
               match \in { extendMatch(tokens1, tokens2, i, j, marked1, marked2, o) } } :
             TRUE

\* ScanStep with >= for > on the runs that are not empty: among the runs of
\* the maximum length the last one of the scan is kept
ScanStepKeepsLast(tokens1, tokens2, i, j, marked1, marked2, o, best) ==
    IF i \in marked1 \/ j \in marked2 THEN best
    ELSE CHOOSE r \in
             { IF match # Null /\ match.lengthOfFirst >= best.maxLength
                  /\ match.lengthOfFirst > 0
               THEN [bestMatch |-> match, maxLength |-> match.lengthOfFirst]
               ELSE best :
               match \in { extendMatch(tokens1, tokens2, i, j, marked1, marked2, o) } } :
             TRUE

\* one step of the inner loop body of findLongestMatch, at the pair (i, j)
ScanStep(tokens1, tokens2, i, j, marked1, marked2, o, best) ==
    IF i \in marked1 \/ j \in marked2 THEN best
    ELSE CHOOSE r \in
             { IF match # Null /\ match.lengthOfFirst > best.maxLength
               THEN [bestMatch |-> match, maxLength |-> match.lengthOfFirst]
               ELSE best :
               match \in { extendMatch(tokens1, tokens2, i, j, marked1, marked2, o) } } :
             TRUE

\* the two nested loops of findLongestMatch, over the pairs number lo to hi of
\* the scan (pair k is i = k \div Len(tokens2), j = k % Len(tokens2)): i
\* ascending, then j ascending.  The pairs are looked at in that order, those
\* of the first half of the range and then those of the second; the pair
\* (bestMatch, maxLength) reached so far is bound as a value before the next
\* pairs are looked at, as the loop holds it in its two locals.
RECURSIVE Scan(_, _, _, _, _, _, _, _)
Scan(tokens1, tokens2, lo, hi, marked1, marked2, o, best) ==
    IF lo > hi THEN best
    ELSE IF lo = hi
    THEN ScanStep(tokens1, tokens2, lo \div Len(tokens2), lo % Len(tokens2),
                  marked1, marked2, o, best)
    ELSE LET mid == (lo + hi) \div 2
         IN  CHOOSE r \in
                 { Scan(tokens1, tokens2, mid + 1, hi, marked1, marked2, o, b) :
                   b \in { Scan(tokens1, tokens2, lo, mid, marked1, marked2, o, best) } } :
                 TRUE

findLongestMatch(tokens1, tokens2, marked1, marked2, o) ==
    Scan(tokens1, tokens2, 0, Len(tokens1) * Len(tokens2) - 1, marked1, marked2, o,
         [bestMatch |-> Null, maxLength |-> 0]).bestMatch

\* LoopStops with <= for <: a longest match of exactly minimumTokenMatch tokens
\* ends the loop
LoopStopsAtMinimum(longestMatch, o) ==
    IF longestMatch = Null THEN TRUE
    ELSE longestMatch.lengthOfFirst <= o.minimumTokenMatch

\* the test that leaves the while (true) loop of compare
LoopStops(longestMatch, o) ==
    IF longestMatch = Null THEN TRUE
    ELSE longestMatch.lengthOfFirst < o.minimumTokenMatch

Max(a, b) == IF a >= b THEN a ELSE b

\* calculateSimilarity dividing by its maxTokens instead of the sum
calculateSimilarityOverMax(matchedTokens, totalTokens1, totalTokens2) ==
    IF totalTokens1 = 0 /\ totalTokens2 = 0 THEN One
    ELSE IF totalTokens1 = 0 \/ totalTokens2 = 0 THEN Zero
    ELSE Frac(2 * matchedTokens, Max(totalTokens1, totalTokens2))

calculateSimilarity(matchedTokens, totalTokens1, totalTokens2) ==
    IF totalTokens1 = 0 /\ totalTokens2 = 0 THEN One
    ELSE IF totalTokens1 = 0 \/ totalTokens2 = 0 THEN Zero
    ELSE Frac(2 * matchedTokens, totalTokens1 + totalTokens2)

RECURSIVE SumLengths(_)
SumLengths(ms) ==
    IF ms = << >> THEN 0 ELSE Head(ms).lengthOfFirst + SumLengths(Tail(ms))

\* the insertion of the sort putting each tile last: the order of discovery
InsertByStartLast(m, sorted) == Append(sorted, m)

\* Array.prototype.sort with (a, b) => a.startOfFirst - b.startOfFirst: a stable
\* sort by ascending startOfFirst
RECURSIVE InsertByStart(_, _)
InsertByStart(m, sorted) ==
    IF sorted = << >> THEN << m >>
    ELSE IF m.startOfFirst < Head(sorted).startOfFirst THEN << m >> \o sorted
    ELSE << Head(sorted) >> \o InsertByStart(m, Tail(sorted))

RECURSIVE SortByStart(_)
SortByStart(ms) ==
    IF ms = << >> THEN << >>
    ELSE InsertByStart(ms[Len(ms)], SortByStart(SubSeq(ms, 1, Len(ms) - 1)))

\* the statements of compare after its loop
MakeResult(tokens1, tokens2, ms) ==
    LET totalTokens1 == Len(tokens1)
        totalTokens2 == Len(tokens2)
        matchedTokens == SumLengths(ms)
    IN  [similarity |-> calculateSimilarity(matchedTokens, totalTokens1, totalTokens2),
         matches |-> SortByStart(ms),
         totalTokens1 |-> totalTokens1,
         totalTokens2 |-> totalTokens2,
         matchedTokens |-> matchedTokens]

\* the while (true) loop of compare, run to its end
RECURSIVE TilingLoop(_, _, _, _, _, _)
TilingLoop(tokens1, tokens2, ms, marked1, marked2, o) ==
    Local(findLongestMatch(tokens1, tokens2, marked1, marked2, o), LAMBDA longestMatch :
        IF LoopStops(longestMatch, o) THEN ms
        ELSE Local(Append(ms, longestMatch), LAMBDA found :
             Local(marked1 \cup Range(longestMatch.startOfFirst,
                                      longestMatch.lengthOfFirst), LAMBDA m1 :
             Local(marked2 \cup Range(longestMatch.startOfSecond,
                                      longestMatch.lengthOfSecond), LAMBDA m2 :
                 TilingLoop(tokens1, tokens2, found, m1, m2, o)))))

compare(tokens1, tokens2, o) ==
    Local(TilingLoop(tokens1, tokens2, << >>, {}, {}, o), LAMBDA ms :
        MakeResult(tokens1, tokens2, ms))

\* -------------------------------------------------------------- source text
\* A source string is kept as the sequence of its lines, code.split('\n'): the
\* empty string is << "" >>.  The lines are drawn from a few concrete texts, and
\* each regular expression or string method of the source is tabulated on the
\* strings those texts can turn into.

\* replace(/[ \t]+/g, ' ') within one line
CollapseSpaces(s) ==
    CASE s = "  f(x);" -> " f(x);"
      [] s = "  f(x);  " -> " f(x); "
      [] s = "  f(x);  // c" -> " f(x); // c"
      [] s = "f(x);  " -> "f(x); "
      [] s = "f(x);  // c" -> "f(x); // c"
      [] OTHER -> s

\* replace(/\/\/.*$/, '')
StripLineComment(s) ==
    CASE s = "  f(x);  // c" -> "  f(x);  "
      [] s = " f(x); // c" -> " f(x); "
      [] s = "// c" -> ""
      [] s = "f(x);  // c" -> "f(x);  "
      [] s = "f(x); // c" -> "f(x); "
      [] OTHER -> s

\* replace(/^\s*#.*$/, '')
StripHashLine(s) ==
    CASE s = "#include <a>" -> ""
      [] OTHER -> s

\* replace(/^\s*using\s+namespace\s+.*$/, '') and replace(/^\s*using\s+.*$/, ''):
\* none of the texts is a using line
StripUsingLine(s) == s

\* String.prototype.trim within one line
Trim(s) ==
    CASE s = "  f(x);" -> "f(x);"
      [] s = "  f(x);  " -> "f(x);"
      [] s = "  f(x);  // c" -> "f(x);  // c"
      [] s = " f(x);" -> "f(x);"
      [] s = " f(x); " -> "f(x);"
      [] s = " f(x); // c" -> "f(x); // c"
      [] s = "f(x); " -> "f(x);"
      [] s = "f(x);  " -> "f(x);"
      [] OTHER -> s

\* what trim removes at the start of a line
TrimStart(s) ==
    CASE s = "  f(x);" -> "f(x);"
      [] s = "  f(x);  " -> "f(x);  "
      [] s = "  f(x);  // c" -> "f(x);  // c"
      [] s = " f(x);" -> "f(x);"
      [] s = " f(x); " -> "f(x); "
      [] s = " f(x); // c" -> "f(x); // c"
      [] OTHER -> s

\* what trim removes at the end of a line
TrimEnd(s) ==
    CASE s = "  f(x);  " -> "  f(x);"
      [] s = " f(x); " -> " f(x);"
      [] s = "f(x); " -> "f(x);"
      [] s = "f(x);  " -> "f(x);"
      [] OTHER -> s

\* which of the replacements of SimpleJPlag.preprocessCode a line matches
DeclarativeKinds(s) ==
    CASE s = "#include <a>" -> { "include" }
      [] s = "extern int g;" -> { "extern" }
      [] OTHER -> {}

\* the replacements of SimpleJPlag.preprocessCode, in the order they are applied
DeclarativeOrder ==
    << "include", "usingNamespace", "using", "define", "ifdef", "ifndef",
       "endif", "extern" >>

\* which tests of extractCppStructuralTokens (and of isFunctionDefinition,
\* isVariableDefinition, isFunctionCall) a trimmed line passes
LineFeatures(s) ==
    CASE s = "extern int g;" -> { "variableDefinition" }
      [] s = "f(x);" -> { "functionCall" }
      [] s = "int n = 0;" -> { "variableDefinition", "assign" }
      [] s = "while (n) {" -> { "functionDefinition", "while", "{" }
      [] s = "x = 1;" -> { "assign" }
      [] s = "}" -> { "}" }
      [] s = "} else {" -> { "else", "{", "}" }
      [] s = "if (n) {" -> { "functionDefinition", "if", "{" }
      [] s = "while (n)" -> { "functionDefinition", "while" }
      [] s = "{" -> { "{" }
      [] OTHER -> {}

IsBlankLine(s) == Trim(s) = ""

\* String.prototype.toLowerCase on a language tag
ToLowerCase(s) ==
    CASE s = "CPP" -> "cpp"
      [] s = "Cpp" -> "cpp"
      [] s = "C++" -> "c++"
      [] s = "Java" -> "java"
      [] OTHER -> s

isCpp(language) == ToLowerCase(language) \in { "cpp", "c++" }

\* ------------------------------------------------------ StructuralTokenizer
cleanLine(line, language) ==
    Trim(IF isCpp(language)
         THEN StripUsingLine(StripHashLine(StripLineComment(line)))
         ELSE StripLineComment(line))

NonEmptyLine(s) == s # ""

tokenizerPreprocessCode(lines, language) ==
    LET cleaned == [k \in 1..Len(lines) |-> cleanLine(lines[k], language)]
    IN  SelectSeq(cleaned, NonEmptyLine)

\* ---------------------------------------------------- SimpleStructuralParser
createToken(type, value, semanticType, currentLine) ==
    [type |-> type, value |-> Trim(value), line |-> currentLine, column |-> 1,
     semanticType |-> semanticType]

\* a test that pushes a token when it passes
Emit(st, passes, type, semanticType, line, currentLine) ==
    IF passes
    THEN [st EXCEPT !.tokens = Append(@, createToken(type, line, semanticType, currentLine))]
    ELSE st

\* a test that pushes a token and, when push holds, pushes tag on braceStack
Open(st, passes, tag, push, line, currentLine) ==
    IF passes
    THEN [tokens |-> Append(st.tokens,
                            createToken(tag \o "_BEGIN", line, "control", currentLine)),
          braceStack |-> IF push THEN Append(st.braceStack, tag) ELSE st.braceStack]
    ELSE st

\* the closing-brace block without its test of blockType: on an empty stack
\* pop() gives undefined, and undefined + '_END' is the type of the token
CloseUnguarded(st, passes, line, currentLine) ==
    IF passes
    THEN [tokens |-> Append(st.tokens,
                            createToken((IF st.braceStack = << >> THEN "undefined"
                                         ELSE st.braceStack[Len(st.braceStack)])
                                            \o "_END",
                                        line, "control", currentLine)),
          braceStack |-> SubSeq(st.braceStack, 1, Len(st.braceStack) - 1)]
    ELSE st

\* the closing-brace block at the end of extractCppStructuralTokens
Close(st, passes, line, currentLine) ==
    IF passes /\ st.braceStack # << >>
    THEN [tokens |-> Append(st.tokens,
                            createToken(st.braceStack[Len(st.braceStack)] \o "_END",
                                        line, "control", currentLine)),
          braceStack |-> SubSeq(st.braceStack, 1, Len(st.braceStack) - 1)]
    ELSE st

extractCppStructuralTokens(line, braceStack, currentLine) ==
    LET F == LineFeatures(line)
        b == "{" \in F
        s00 == [tokens |-> << >>, braceStack |-> braceStack]
        s01 == Open(s00, "classOrStruct" \in F,
                    IF "struct" \in F THEN "STRUCT" ELSE "CLASS", b, line, currentLine)
        s02 == Open(s01, "enum" \in F, "ENUM", b, line, currentLine)
        s03 == Open(s02, "union" \in F, "UNION", b, line, currentLine)
        s04 == Open(s03, "functionDefinition" \in F, "FUNCTION", b, line, currentLine)
        s05 == Open(s04, "if" \in F, "IF", b, line, currentLine)
        s06 == Emit(s05, "else" \in F, "ELSE", "control", line, currentLine)
        s07 == Open(s06, "for" \in F, "FOR", b, line, currentLine)
        s08 == Open(s07, "while" \in F, "WHILE", b, line, currentLine)
        s09 == Open(s08, "do" \in F, "DO", TRUE, line, currentLine)
        s10 == Open(s09, "switch" \in F, "SWITCH", b, line, currentLine)
        s11 == Emit(s10, "case" \in F, "CASE", "control", line, currentLine)
        s12 == Emit(s11, "default" \in F, "DEFAULT", "control", line, currentLine)
        s13 == Emit(s12, "return" \in F, "RETURN", "control", line, currentLine)
        s14 == Emit(s13, "break" \in F, "BREAK", "control", line, currentLine)
        s15 == Emit(s14, "continue" \in F, "CONTINUE", "control", line, currentLine)
        s16 == Emit(s15, "goto" \in F, "GOTO", "control", line, currentLine)
        s17 == Open(s16, "try" \in F, "TRY", TRUE, line, currentLine)
        s18 == Open(s17, "catch" \in F, "CATCH", b, line, currentLine)
        s19 == Emit(s18, "throw" \in F, "THROW", "control", line, currentLine)
        s20 == Emit(s19, "variableDefinition" \in F, "VARDEF", "declaration",
                    line, currentLine)
        s21 == Emit(s20, "assign" \in F, "ASSIGN", "expression", line, currentLine)
        s22 == Emit(s21, "functionCall" \in F, "APPLY", "expression", line, currentLine)
        s23 == Emit(s22, "new" \in F, IF "[" \in F THEN "NEWARRAY" ELSE "NEWCLASS",
                    "expression", line, currentLine)
    IN  Close(s23, "}" \in F, line, currentLine)

\* extractJavaStructuralTokens and extractPythonStructuralTokens return no token
parseLine(line, language, braceStack, currentLine) ==
    IF Trim(line) = "" THEN [tokens |-> << >>, braceStack |-> braceStack]
    ELSE IF isCpp(language)
         THEN extractCppStructuralTokens(Trim(line), braceStack, currentLine)
         ELSE [tokens |-> << >>, braceStack |-> braceStack]

\* the for loop of extractStructuralTokens from index i on (currentLine = i + 1)
RECURSIVE ParseFrom(_, _, _, _, _)
ParseFrom(lines, language, i, braceStack, tokens) ==
    IF i >= Len(lines) THEN tokens
    ELSE LET lineTokens == parseLine(lines[i + 1], language, braceStack, i + 1)
         IN  ParseFrom(lines, language, i + 1, lineTokens.braceStack,
                       tokens \o lineTokens.tokens)

extractStructuralTokens(lines, language) ==
    ParseFrom(lines, language, 0, << >>, << >>)

tokenize(code, language) ==
    extractStructuralTokens(tokenizerPreprocessCode(code, language), language)

\* -------------------------------------------------------------- SimpleJPlag
\* one replace(/^\s*<kind>...$/gm, ''): a matching line becomes empty, and so do
\* the blank lines of the text right before it, which the leading \s* takes in.
\* blanks counts the lines at the end of out that are blank in the text.
RECURSIVE RemoveKindFrom(_, _, _, _, _)
RemoveKindFrom(lines, kind, k, out, blanks) ==
    IF k > Len(lines) THEN out
    ELSE IF kind \in DeclarativeKinds(lines[k])
         THEN RemoveKindFrom(lines, kind, k + 1,
                  Append(SubSeq(out, 1, Len(out) - blanks), ""), 0)
         ELSE RemoveKindFrom(lines, kind, k + 1, Append(out, lines[k]),
                  IF IsBlankLine(lines[k]) THEN blanks + 1 ELSE 0)

RemoveKind(lines, kind) == RemoveKindFrom(lines, kind, 1, << >>, 0)

RECURSIVE RemoveKinds(_, _)
RemoveKinds(lines, kinds) ==
    IF kinds = << >> THEN lines
    ELSE RemoveKinds(RemoveKind(lines, Head(kinds)), Tail(kinds))

\* replace(/\n\s*\n/g, '\n'): every blank line that is neither the first nor the
\* last line goes
RemoveBlankRuns(lines) ==
    LET keep == { k \in 1..Len(lines) :
                    k = 1 \/ k = Len(lines) \/ ~IsBlankLine(lines[k]) }
        Nth(n) == CHOOSE k \in keep : Cardinality({ h \in keep : h <= k }) = n
    IN  [n \in 1..Cardinality(keep) |-> lines[Nth(n)]]

\* String.prototype.trim on the whole text
TrimCode(lines) ==
    LET solid == { k \in 1..Len(lines) : ~IsBlankLine(lines[k]) }
    IN  IF solid = {} THEN << "" >>
        ELSE LET first == CHOOSE k \in solid : \A h \in solid : k <= h
                 last == CHOOSE k \in solid : \A h \in solid : h <= k
                 cut == SubSeq(lines, first, last)
             IN  [k \in 1..Len(cut) |->
                    IF k = 1 /\ k = Len(cut) THEN Trim(cut[k])
                    ELSE IF k = 1 THEN TrimStart(cut[k])
                    ELSE IF k = Len(cut) THEN TrimEnd(cut[k])
                    ELSE cut[k]]

jplagPreprocessCode(code, o) ==
    LET declared == IF isCpp(o.language) THEN RemoveKinds(code, DeclarativeOrder)
                    ELSE code
        spaced == IF o.normalizeWhitespace
                  THEN RemoveBlankRuns([k \in 1..Len(declared) |->
                                           CollapseSpaces(declared[k])])
                  ELSE declared
    IN  TrimCode(spaced)

\* variant: a source with exactly minimumTokenMatch tokens is also too short
TooFewTokensInclusive(tokensA, tokensB, o) ==
    Len(tokensA) <= o.minimumTokenMatch \/ Len(tokensB) <= o.minimumTokenMatch

\* variant: the early return needs both sources to be too short
TooFewTokensBoth(tokensA, tokensB, o) ==
    Len(tokensA) < o.minimumTokenMatch /\ Len(tokensB) < o.minimumTokenMatch

\* the early return of SimpleJPlag.compare
TooFewTokens(tokensA, tokensB, o) ==
    Len(tokensA) < o.minimumTokenMatch \/ Len(tokensB) < o.minimumTokenMatch

ShortCircuitResult(tokensA, tokensB) ==
    [similarity |-> Zero, matches |-> << >>, totalTokens1 |-> Len(tokensA),
     totalTokens2 |-> Len(tokensB), matchedTokens |-> 0]

\* variant: a filtered result also loses its score
FilterLowSimilarityZeroing(res, o) ==
    IF FracLt(res.similarity, o.minimumSimilarity)
    THEN [res EXCEPT !.matches = << >>, !.similarity = Zero]
    ELSE res

\* the filter on a low similarity at the end of SimpleJPlag.compare
FilterLowSimilarity(res, o) ==
    IF FracLt(res.similarity, o.minimumSimilarity)
    THEN [res EXCEPT !.matches = << >>]
    ELSE res

\* SimpleJPlag.compare: the two token sequences, the matcher's result (Null
\* when the matcher is not called) and the result returned
jplagCompare(codeA, codeB, o) ==
    Local(tokenize(jplagPreprocessCode(codeA, o), o.language), LAMBDA tokensA :
    Local(tokenize(jplagPreprocessCode(codeB, o), o.language), LAMBDA tokensB :
        IF TooFewTokens(tokensA, tokensB, o)
        THEN [tokens1 |-> tokensA, tokens2 |-> tokensB, matcher |-> Null,
              returned |-> ShortCircuitResult(tokensA, tokensB)]
        ELSE Local(compare(tokensA, tokensB, o), LAMBDA res :
                 [tokens1 |-> tokensA, tokens2 |-> tokensB, matcher |-> res,
                  returned |-> FilterLowSimilarity(res, o)])))

\* tokens[index]?.line || 1
LineOrOne(tokens, index) ==
    IF index >= 0 /\ index < Len(tokens) /\ tokens[index + 1].line # 0
    THEN tokens[index + 1].line
    ELSE 1

\* lines.slice(startLine - 1, endLine).join('\n'), as the lines of the text
\* joined: the empty text is the one empty line
SliceJoin(lines, startLine, endLine) ==
    LET from == IF startLine - 1 < Len(lines) THEN startLine ELSE Len(lines) + 1
        to == IF endLine < Len(lines) THEN endLine ELSE Len(lines)
    IN  IF to < from THEN << "" >> ELSE SubSeq(lines, from, to)

\* SimpleJPlag.getDetailedMatches: the sources are tokenized as they are
getDetailedMatches(codeA, codeB, res, o) ==
    Local(tokenize(codeA, o.language), LAMBDA tokensA :
    Local(tokenize(codeB, o.language), LAMBDA tokensB :
    LET Detail(match) ==
            LET startLine1 == LineOrOne(tokensA, match.startOfFirst)
                endLine1 == LineOrOne(tokensA,
                                match.startOfFirst + match.lengthOfFirst - 1)
                startLine2 == LineOrOne(tokensB, match.startOfSecond)
                endLine2 == LineOrOne(tokensB,
                                match.startOfSecond + match.lengthOfSecond - 1)
            IN  [match |-> match,
                 code1Fragment |-> SliceJoin(codeA, startLine1, endLine1),
                 code2Fragment |-> SliceJoin(codeB, startLine2, endLine2),
                 lines1 |-> [start |-> startLine1, end |-> endLine1],
                 lines2 |-> [start |-> startLine2, end |-> endLine2]]
    IN  [k \in 1..Len(res.matches) |-> Detail(res.matches[k])]))

\* --------------------------------------------------------- LanguageDetector
\* the keys of indicators, in the order Object.entries gives them
HybridLanguages == << "cpp", "java", "python", "javascript" >>
JPlagLanguages == << "cpp", "java", "python" >>

\* the number of patterns of a language
HybridPatterns(lang) == 5
JPlagPatterns(lang) == IF lang = "cpp" THEN 6 ELSE 5

\* detectLanguage of src/unnamed/part_000: the first language, from index k
\* on, with at least two indicators, and cpp when there is none
RECURSIVE HybridDetectFrom(_, _)
HybridDetectFrom(scores, k) ==
    IF k > Len(HybridLanguages) THEN "cpp"
    ELSE IF scores[HybridLanguages[k]] >= 2 THEN HybridLanguages[k]
    ELSE HybridDetectFrom(scores, k + 1)

detectLanguageHybrid(scores) == HybridDetectFrom(scores, 1)

\* detectLanguage of src/unnamed/part_001: the loop from index k on, with its
\* locals maxScore and detectedLanguage
RECURSIVE JPlagDetectFrom(_, _, _, _)
JPlagDetectFrom(scores, k, maxScore, detected) ==
    IF k > Len(JPlagLanguages) THEN detected
    ELSE IF scores[JPlagLanguages[k]] > maxScore
         THEN JPlagDetectFrom(scores, k + 1, scores[JPlagLanguages[k]], JPlagLanguages[k])
         ELSE JPlagDetectFrom(scores, k + 1, maxScore, detected)

detectLanguageJPlag(scores) == JPlagDetectFrom(scores, 1, 0, "cpp")

\* the options SimpleJPlag's constructor builds when it is given none
DefaultOptions ==
    [minimumTokenMatch |-> 12, minimumSimilarity |-> Frac(1, 10), language |-> "cpp",
     ignoreCase |-> FALSE, ignoreComments |-> TRUE, normalizeWhitespace |-> TRUE,
     extractStructuralTokensOnly |-> TRUE]

\* the constructor of SimpleJPlag: the options given laid over the defaults,
\* with no test of their values
SimpleJPlagOptions(given) ==
    [f \in DOMAIN DefaultOptions |->
        IF f \in DOMAIN given THEN given[f] ELSE DefaultOptions[f]]

\* ----------------------------------------- EnhancedCodeSimilarityAnalyzer
\* (src/unnamed/part_000, the analyzer src/index.ts calls)

\* one line of a code after cleanCode's replace(/\/\/.*$/gm, ''),
\* replace(/\s+/g, ' ') and trim, as its characters
CleanLineChars(s) ==
    CASE s = "x = 1;" -> << "x", " ", "=", " ", "1", ";" >>
      [] s = "int n = 0;" -> << "i", "n", "t", " ", "n", " ", "=", " ", "0", ";" >>
      [] s = "  f(x);  // c" -> << "f", "(", "x", ")", ";" >>
      [] s = "f(x);" -> << "f", "(", "x", ")", ";" >>
      [] OTHER -> << >>

\* cleanCode: the cleaned lines that are not empty, one space between them
RECURSIVE cleanCodeFrom(_, _, _)
cleanCodeFrom(code, k, out) ==
    IF k > Len(code) THEN out
    ELSE LET chars == CleanLineChars(code[k])
         IN  cleanCodeFrom(code, k + 1,
                 IF chars = << >> THEN out
                 ELSE IF out = << >> THEN chars
                 ELSE out \o << " " >> \o chars)

cleanCode(code) == cleanCodeFrom(code, 1, << >>)

Min3(a, b, c) == IF a <= b /\ a <= c THEN a ELSE IF b <= c THEN b ELSE c

\* the inner loop of levenshteinDistance for the character c of str2, from
\* i = lo to i = hi: row holds matrix[j][0..lo-1] and prev is matrix[j-1] (the
\* cell of index i is at i + 1). The steps of the loop run in their order, as
\* the steps of its first half and then those of its second half.
RECURSIVE LevenshteinRow(_, _, _, _, _, _)
LevenshteinRow(prev, str1, c, lo, hi, row) ==
    IF lo > hi THEN row
    ELSE IF lo = hi
    THEN LET indicator == IF str1[lo] = c THEN 0 ELSE 1
         IN  Append(row, Min3(row[lo] + 1, prev[lo + 1] + 1, prev[lo] + indicator))
    ELSE LET mid == (lo + hi) \div 2
         IN  CHOOSE r \in { LevenshteinRow(prev, str1, c, mid + 1, hi, half) :
                               half \in { LevenshteinRow(prev, str1, c, lo, mid, row) } } : TRUE

\* the outer loop of levenshteinDistance from j = lo to j = hi, prev being
\* matrix[lo - 1]; split in halves like the inner loop
RECURSIVE LevenshteinRows(_, _, _, _, _)
LevenshteinRows(str1, str2, lo, hi, prev) ==
    IF lo > hi THEN prev
    ELSE IF lo = hi THEN LevenshteinRow(prev, str1, str2[lo], 1, Len(str1), << lo >>)
    ELSE LET mid == (lo + hi) \div 2
         IN  CHOOSE r \in { LevenshteinRows(str1, str2, mid + 1, hi, half) :
                               half \in { LevenshteinRows(str1, str2, lo, mid, prev) } } : TRUE

levenshteinDistance(str1, str2) ==
    LevenshteinRows(str1, str2, 1, Len(str2),
                    [i \in 1..(Len(str1) + 1) |-> i - 1])[Len(str1) + 1]

originalCalculateSimilarity(codeA, codeB) ==
    Local(cleanCode(codeA), LAMBDA clean1 :
    Local(cleanCode(codeB), LAMBDA clean2 :
        IF Len(clean1) = 0 /\ Len(clean2) = 0 THEN One
        ELSE IF Len(clean1) = 0 \/ Len(clean2) = 0 THEN Zero
        ELSE Local(levenshteinDistance(clean1, clean2), LAMBDA distance :
                 LET maxLength == Max(Len(clean1), Len(clean2))
                 IN  FracSub(One, Frac(distance, maxLength)))))

calculateCombinedSimilarity(originalSim, jplagSim, matchCount) ==
    LET jplagWeight == FracMin(Frac(7, 10), Frac(3 + matchCount, 10))
        originalWeight == FracSub(One, jplagWeight)
    IN  FracAdd(FracMul(originalSim, originalWeight), FracMul(jplagSim, jplagWeight))

\* totalTokens1 + totalTokens2 = 0 makes coverage 0 / 0, and so the sum, NaN
\* (matchedTokens is 0 when there is no token)
calculateConfidence(originalSim, jplagSim, matchedTokens, totalTokens1, totalTokens2) ==
    IF totalTokens1 + totalTokens2 = 0 THEN NaN
    ELSE LET consistency == FracSub(One, FracAbs(FracSub(originalSim, jplagSim)))
             coverage == Frac(2 * matchedTokens, totalTokens1 + totalTokens2)
             lengthFactor == FracMin(One, Frac(totalTokens1 + totalTokens2, 100))
         IN  FracAdd(FracAdd(FracMul(consistency, Frac(4, 10)),
                             FracMul(coverage, Frac(4, 10))),
                     FracMul(lengthFactor, Frac(2, 10)))

\* a comparison with NaN is false
selectBestAlgorithm(originalSim, jplagSim, confidence) ==
    IF confidence # NaN /\ FracLt(Frac(8, 10), confidence) THEN "hybrid"
    ELSE IF FracLt(FracAbs(FracSub(originalSim, jplagSim)), Frac(1, 10)) THEN "hybrid"
    ELSE IF FracLt(originalSim, jplagSim) THEN "jplag"
    ELSE "original"

\* the options getJPlagInstance builds an engine with
InstanceOptions(language) ==
    [language |-> language, minimumTokenMatch |-> 12, minimumSimilarity |-> Frac(1, 10),
     ignoreComments |-> TRUE, ignoreCase |-> FALSE, normalizeWhitespace |-> TRUE,
     extractStructuralTokensOnly |-> TRUE]

\* new SimpleJPlag(options) as the analyzer's n-th engine: an engine is its
\* options (it has no other field that a call changes) and its identity, the
\* number of the construction that made it
NewEngine(instances, language) ==
    [options |-> SimpleJPlagOptions(InstanceOptions(language)),
     serial |-> Cardinality(DOMAIN instances) + 1]

\* getJPlagInstance with one slot for all languages: the engine built first is
\* the engine of every language
getJPlagInstanceOneSlot(instances, language) ==
    IF DOMAIN instances = {}
    THEN [instances |-> [l \in { language } |-> NewEngine(instances, language)],
          jplag |-> NewEngine(instances, language)]
    ELSE [instances |-> instances,
          jplag |-> instances[CHOOSE l \in DOMAIN instances : TRUE]]

\* getJPlagInstance without its test of has(language): every call constructs an
\* engine and sets it
getJPlagInstanceRebuilding(instances, language) ==
    LET after == [l \in DOMAIN instances \cup { language } |->
                     IF l = language THEN NewEngine(instances, language)
                     ELSE instances[l]]
    IN  [instances |-> after, jplag |-> after[language]]

\* getJPlagInstance: the map jplagInstances afterwards, and the engine returned
getJPlagInstance(instances, language) ==
    LET after == IF language \in DOMAIN instances THEN instances
                 ELSE [l \in DOMAIN instances \cup { language } |->
                          IF l = language THEN NewEngine(instances, language)
                          ELSE instances[l]]
    IN  [instances |-> after, jplag |-> after[language]]

\* the indicators of each language that fire on a code: none of the texts
\* fires an indicator
HybridIndicatorScores(code) == [lang \in SeqRange(HybridLanguages) |-> 0]

\* calculateEnhancedSimilarity: the map jplagInstances afterwards, its local
\* jplagResult and the result (of a detail, the lines and the token count)
calculateEnhancedSimilarity(instances, codeA, codeB, language) ==
    Local(IF language = "" THEN detectLanguageHybrid(HybridIndicatorScores(codeA))
          ELSE language, LAMBDA detectedLanguage :
    Local(originalCalculateSimilarity(codeA, codeB), LAMBDA originalSimilarity :
    Local(getJPlagInstance(instances, detectedLanguage), LAMBDA got :
    Local(jplagCompare(codeA, codeB, got.jplag.options).returned, LAMBDA jplagResult :
    Local(getDetailedMatches(codeA, codeB, jplagResult, got.jplag.options),
          LAMBDA detailed :
    Local([k \in 1..Len(detailed) |->
                [startLine1 |-> detailed[k].lines1.start,
                 endLine1 |-> detailed[k].lines1.end,
                 startLine2 |-> detailed[k].lines2.start,
                 endLine2 |-> detailed[k].lines2.end,
                 similarity |-> detailed[k].match.similarity,
                 tokenCount |-> detailed[k].match.lengthOfFirst]],
          LAMBDA enhancedDetails :
    Local(calculateCombinedSimilarity(originalSimilarity, jplagResult.similarity,
                                      Len(enhancedDetails)), LAMBDA combinedSimilarity :
    Local(calculateConfidence(originalSimilarity, jplagResult.similarity,
                              jplagResult.matchedTokens, jplagResult.totalTokens1,
                              jplagResult.totalTokens2), LAMBDA confidence :
        [instances |-> got.instances,
         jplagResult |-> jplagResult,
         result |-> [originalSimilarity |-> originalSimilarity,
                     jplagSimilarity |-> jplagResult.similarity,
                     combinedSimilarity |-> combinedSimilarity,
                     details |-> enhancedDetails,
                     confidence |-> confidence,
                     algorithm |-> selectBestAlgorithm(originalSimilarity,
                                       jplagResult.similarity, confidence)]]))))))))

\* calculateJPlagConfidence of the analyzer of src/unnamed/part_001
calculateJPlagConfidence(similarity, matchedTokens, totalTokens1, totalTokens2, matchCount) ==
    LET minTokens == IF totalTokens1 <= totalTokens2 THEN totalTokens1 ELSE totalTokens2
        byTokens == IF minTokens > 0
                    THEN FracAdd(FracMul(similarity, Frac(7, 10)),
                                 FracMul(Frac(matchedTokens, minTokens), Frac(3, 10)))
                    ELSE similarity
        byMatches == IF matchCount > 0
                     THEN FracMin(FracAdd(byTokens,
                                          FracMin(Frac(matchCount, 5), Frac(2, 10))), One)
                     ELSE byTokens
        bySize == IF totalTokens1 < 20 \/ totalTokens2 < 20
                  THEN FracMul(byMatches, Frac(7, 10))
                  ELSE byMatches
        capped == FracMin(One, bySize)
    IN  IF FracLe(Zero, capped) THEN capped ELSE Zero

\* the switch of calculateSimilarity on the label of a result
SimilarityByAlgorithm(res) ==
    CASE res.algorithm = "jplag" -> res.jplagSimilarity
      [] res.algorithm = "original" -> res.originalSimilarity
      [] OTHER -> res.combinedSimilarity

\* ------------------------------------------------------------------ state
VARIABLES
    tokens1,      \* GreedyStringTiling.compare's first argument
    tokens2,      \* GreedyStringTiling.compare's second argument
    options,      \* GreedyStringTiling.options
    matches,      \* compare's local matches, in order of discovery
    marked1,      \* compare's local marked1
    marked2,      \* compare's local marked2
    pc,           \* "idle": not called; "loop": at the head of while (true); "done": returned
    result,       \* the JPlagResult compare returned, Null before the return
    code1,        \* SimpleJPlag.compare's first argument, as its lines
    code2,        \* SimpleJPlag.compare's second argument, as its lines
    jplagOptions, \* SimpleJPlag.options
    jplagTokens1, \* SimpleJPlag.compare's local tokens1
    jplagTokens2, \* SimpleJPlag.compare's local tokens2
    matcherResult,\* SimpleJPlag.compare's local result, Null while algorithm.compare is not called
    returned,     \* what SimpleJPlag.compare returned, Null before the return
    jplagPc,      \* "idle": SimpleJPlag.compare not called; "returned": it returned;
                  \* "detailed": getDetailedMatches returned
    detailedMatches, \* what SimpleJPlag.getDetailedMatches returned, Null before
    indicatorScores, \* LanguageDetector.detectLanguage: the indicators of each
                     \* language that fire on the code
    detectedLanguage,\* what detectLanguage returned, Null before
    detector,        \* which analyzer's detectLanguage ran: "none", "hybrid"
                     \* (src/unnamed/part_000) or "jplag" (src/unnamed/part_001)
    jplagInstances,  \* EnhancedCodeSimilarityAnalyzer.jplagInstances: the engine
                     \* of each language that has one
    analyzerCall,    \* the last call of the analyzer: its entry point and its
                     \* arguments, Null before the first
    enhancedResult,  \* what calculateEnhancedSimilarity returned in that call
    similarityScore, \* what calculateSimilarity returned, Null when the call was
                     \* not one of calculateSimilarity
    jplagConfidence, \* the confidence the analyzer of src/unnamed/part_001
                     \* computes for the same comparison
    reports,         \* the collection plagiarism_reports: the document of each
                     \* _id (1, 2, ... in order of insertion)
    tasks,           \* the call of processReport for each report: its position
                     \* (pc) and its locals
    parserLines,     \* SimpleStructuralParser.lines
    parserIndex,     \* the i of the for loop of extractStructuralTokens
    parserBraceStack,\* SimpleStructuralParser.braceStack
    parserTokens,    \* the local tokens of extractStructuralTokens
    parserPc,        \* "idle": no parser constructed; "parsing": in the for loop
                     \* of extractStructuralTokens; "returned": it returned
    cacheEntries,    \* SubmissionCache.cache: the entries of the Map, in the
                     \* order of insertion of their keys
    hitCount,        \* SubmissionCache.hitCount
    missCount,       \* SubmissionCache.missCount
    cacheCall        \* the last call on submissionCache and what it returned,
                     \* Null before the first

gstVars == << tokens1, tokens2, options, matches, marked1, marked2, pc, result >>

jplagVars == << code1, code2, jplagOptions, jplagTokens1, jplagTokens2,
               matcherResult, returned, jplagPc, detailedMatches >>

detectVars == << indicatorScores, detectedLanguage, detector >>

analyzerVars == << jplagInstances, analyzerCall, enhancedResult, similarityScore,
                  jplagConfidence >>

\* the state of the analyzers and of the report model
reportVars == << reports, tasks >>

parserVars == << parserLines, parserIndex, parserBraceStack, parserTokens, parserPc >>

cacheVars == << cacheEntries, hitCount, missCount, cacheCall >>

appVars == << detectVars, analyzerVars, reportVars, parserVars, cacheVars >>

vars == << gstVars, jplagVars, appVars >>

Init ==
    /\ tokens1 = << >>
    /\ tokens2 = << >>
    /\ options = DefaultOptions
    /\ matches = << >>
    /\ marked1 = {}
    /\ marked2 = {}
    /\ pc = "idle"
    /\ result = Null
    /\ code1 = << "" >>
    /\ code2 = << "" >>
    /\ jplagOptions = DefaultOptions
    /\ jplagTokens1 = << >>
    /\ jplagTokens2 = << >>
    /\ matcherResult = Null
    /\ returned = Null
    /\ jplagPc = "idle"
    /\ detailedMatches = Null
    /\ indicatorScores = [lang \in SeqRange(HybridLanguages) |-> 0]
    /\ detectedLanguage = Null
    /\ detector = "none"
    /\ jplagInstances = << >>
    /\ analyzerCall = Null
    /\ enhancedResult = Null
    /\ similarityScore = Null
    /\ jplagConfidence = Null
    /\ reports = << >>
    /\ tasks = << >>
    /\ parserLines = << >>
    /\ parserIndex = 0
    /\ parserBraceStack = << >>
    /\ parserTokens = << >>
    /\ parserPc = "idle"
    /\ cacheEntries = << >>
    /\ hitCount = 0
    /\ missCount = 0
    /\ cacheCall = Null

\* new GreedyStringTiling(o).compare(t1, t2) is entered: the locals are fresh
Enter(t1, t2, o) ==
    /\ tokens1' = t1
    /\ tokens2' = t2
    /\ options' = o
    /\ matches' = << >>
    /\ marked1' = {}
    /\ marked2' = {}
    /\ pc' = "loop"
    /\ UNCHANGED << result, jplagVars, appVars >>

Call ==
    /\ pc = "idle"
    /\ \E t1, t2 \in SeqsUpTo(TokenUniverse, MaxLen), o \in GstOptions :
           Enter(t1, t2, o)

\* one iteration of the loop that records a tile and marks its tokens
RecordTile ==
    /\ pc = "loop"
    /\ \E longestMatch \in
             { findLongestMatch(tokens1, tokens2, marked1, marked2, options) } :
           /\ ~LoopStops(longestMatch, options)
           /\ matches' = Append(matches, longestMatch)
           /\ marked1' = marked1 \cup
                  Range(longestMatch.startOfFirst, longestMatch.lengthOfFirst)
           /\ marked2' = marked2 \cup
                  Range(longestMatch.startOfSecond, longestMatch.lengthOfSecond)
    /\ UNCHANGED << tokens1, tokens2, options, pc, result, jplagVars, appVars >>

\* the iteration that breaks out of the loop, and the return that follows it
Return ==
    /\ pc = "loop"
    /\ \E longestMatch \in
             { findLongestMatch(tokens1, tokens2, marked1, marked2, options) } :
           LoopStops(longestMatch, options)
    /\ result' = MakeResult(tokens1, tokens2, matches)
    /\ matches' = SortByStart(matches)
    /\ pc' = "done"
    /\ UNCHANGED << tokens1, tokens2, options, marked1, marked2, jplagVars, appVars >>

Next == Call \/ RecordTile \/ Return

Spec == Init /\ [][Next]_vars

\* the same program called with sequences over two token types; the loop has
\* no suspension point, so an enabled step is taken
CallLive ==
    /\ pc = "idle"
    /\ \E t1, t2 \in SeqsUpTo(TwoTypes, MaxLen), o \in GstOptions : Enter(t1, t2, o)

NextLive == CallLive \/ RecordTile \/ Return

\* compare on the pairs of sequences of at most MaxLen tokens of two types
ShortSpec == Init /\ [][NextLive]_vars

LiveSpec == Init /\ [][NextLive]_vars /\ WF_vars(NextLive)

\* the same program called on longer sequences over two token types
CallLong ==
    /\ pc = "idle"
    /\ \E t1, t2 \in SeqsUpTo(TwoTypes, MaxLongLen), o \in GstOptions :
           Enter(t1, t2, o)

NextLong == CallLong \/ RecordTile \/ Return

LongSpec == Init /\ [][NextLong]_vars

\* ---------------------------------------------------- SimpleJPlag.compare
\* the lines of the sources compared
EngineLines == { "", "x = 1;", "  f(x);  // c", "int n = 0;" }

\* a source has at least one line: ''.split('\n') is ['']
EngineSources == UNION { [1..k -> EngineLines] : k \in 1..MaxLines }

EngineOptions ==
    [minimumTokenMatch : MinimumTokenMatchValues,
     minimumSimilarity : { Frac(1, 10), Frac(1, 2) },
     language : { "cpp", "java" },
     ignoreCase : { FALSE },
     ignoreComments : { TRUE },
     normalizeWhitespace : { TRUE },
     extractStructuralTokensOnly : { TRUE }]

\* new SimpleJPlag(given).compare(c1, c2), from its call to its return
JPlagCall(c1, c2, given) ==
    \E o \in { SimpleJPlagOptions(given) } :
    \E r \in { jplagCompare(c1, c2, o) } :
       /\ code1' = c1
       /\ code2' = c2
       /\ jplagOptions' = o
       /\ jplagTokens1' = r.tokens1
       /\ jplagTokens2' = r.tokens2
       /\ matcherResult' = r.matcher
       /\ returned' = r.returned
       /\ jplagPc' = "returned"
       /\ UNCHANGED << gstVars, detailedMatches, appVars >>

JPlagCompare ==
    /\ jplagPc = "idle"
    /\ \E c1, c2 \in EngineSources, given \in EngineOptions : JPlagCall(c1, c2, given)

EngineNext == JPlagCompare

EngineSpec == Init /\ [][EngineNext]_vars

\* the language tags an engine is built with: the names parseLine tests for, in
\* two spellings, the group name 'c' and a language id of the judge
LanguageTags == { "cpp", "C++", "java", "python", "c", "cc.cc14" }

\* the options getJPlagInstance builds for a language, with a minimumTokenMatch
\* that the short sources reach
LanguageOptions ==
    [language : LanguageTags, minimumTokenMatch : { 1 }]

\* SimpleJPlag.compare on an engine built for one of the language tags
JPlagCompareInLanguage ==
    /\ jplagPc = "idle"
    /\ \E c1, c2 \in EngineSources, given \in LanguageOptions :
          JPlagCall(c1, c2, given)

LanguageNext == JPlagCompareInLanguage

LanguageSpec == Init /\ [][LanguageNext]_vars

\* jplag.getDetailedMatches(code1, code2, jplagResult) on the sources and the
\* result of the compare that just returned, as the analyzers call it
GetDetailedMatches ==
    /\ jplagPc = "returned"
    /\ detailedMatches' = getDetailedMatches(code1, code2, returned, jplagOptions)
    /\ jplagPc' = "detailed"
    /\ UNCHANGED << gstVars, code1, code2, jplagOptions, jplagTokens1, jplagTokens2,
                    matcherResult, returned, appVars >>

DetailNext == JPlagCompare \/ GetDetailedMatches

DetailSpec == Init /\ [][DetailNext]_vars

\* sources with the declarations SimpleJPlag.preprocessCode removes
DeclarativeLines == { "#include <a>", "extern int g;", "x = 1;", "int n = 0;" }

DeclarativeSources == UNION { [1..k -> DeclarativeLines] : k \in 1..MaxLines }

DeclarativeOptions ==
    [language : { "cpp", "java" }, minimumTokenMatch : { 1, 2 }]

\* SimpleJPlag.compare on two sources with declarations
JPlagCompareDeclarative ==
    /\ jplagPc = "idle"
    /\ \E c1, c2 \in DeclarativeSources, given \in DeclarativeOptions :
          JPlagCall(c1, c2, given)

DeclarativeNext == JPlagCompareDeclarative \/ GetDetailedMatches

DeclarativeSpec == Init /\ [][DeclarativeNext]_vars

\* ---------------------------------------------------------- detectLanguage
\* LanguageDetector.detectLanguage(code) of src/unnamed/part_000, on a code
\* that fires the indicators counted in scores
DetectLanguageHybrid ==
    /\ detector = "none"
    /\ \E scores \in [SeqRange(HybridLanguages) -> 0..5] :
          /\ \A lang \in DOMAIN scores : scores[lang] <= HybridPatterns(lang)
          /\ indicatorScores' = scores
          /\ detectedLanguage' = detectLanguageHybrid(scores)
    /\ detector' = "hybrid"
    /\ UNCHANGED << gstVars, jplagVars, analyzerVars, reportVars, parserVars, cacheVars >>

\* LanguageDetector.detectLanguage(code) of src/unnamed/part_001
DetectLanguageJPlag ==
    /\ detector = "none"
    /\ \E scores \in [SeqRange(JPlagLanguages) -> 0..6] :
          /\ \A lang \in DOMAIN scores : scores[lang] <= JPlagPatterns(lang)
          /\ indicatorScores' = scores
          /\ detectedLanguage' = detectLanguageJPlag(scores)
    /\ detector' = "jplag"
    /\ UNCHANGED << gstVars, jplagVars, analyzerVars, reportVars, parserVars, cacheVars >>

DetectNext == DetectLanguageHybrid \/ DetectLanguageJPlag

DetectSpec == Init /\ [][DetectNext]_vars

\* a source of LongSourceLines times the same line
Repeat(line) == [k \in 1..LongSourceLines |-> line]

\* a code with the twelve tokens minimumTokenMatch asks for, and the same code
\* with one more line
LongSource == Repeat("int n = 0;")
LongerSource == LongSource \o << "  f(x);  // c" >>

\* the pairs of sources handed to the analyzer: the empty code, a one-line code
\* and the long code against each other, the long code against the longer one
\* where it would be against itself
AnalyzerPairs ==
    { IF p = << LongSource, LongSource >> THEN << LongSource, LongerSource >> ELSE p :
        p \in { << "" >>, << "x = 1;" >>, LongSource } \X
              { << "" >>, << "x = 1;" >>, LongSource } }

\* the language argument: "" for an absent or empty one (language || ...
\* takes both the same way), or a language of the submissions
AnalyzerLanguages == { "", "cpp", "java" }

\* one call of the analyzer of src/unnamed/part_000 from entry to return
AnalyzerCall(entry, c1, c2, language) ==
    \E e \in { calculateEnhancedSimilarity(jplagInstances, c1, c2, language) } :
       /\ jplagInstances' = e.instances
       /\ analyzerCall' = [entry |-> entry, code1 |-> c1, code2 |-> c2,
                           language |-> language, instancesBefore |-> jplagInstances]
       /\ enhancedResult' = e.result
       /\ similarityScore' = IF entry = "calculateSimilarity"
                             THEN SimilarityByAlgorithm(e.result)
                             ELSE Null
       /\ jplagConfidence' =
             LET r == e.jplagResult
             IN  calculateJPlagConfidence(r.similarity, r.matchedTokens, r.totalTokens1,
                                          r.totalTokens2, Len(r.matches))
       /\ UNCHANGED << gstVars, jplagVars, detectVars, reportVars, parserVars, cacheVars >>

CalculateEnhancedSimilarity ==
    \E p \in AnalyzerPairs, language \in AnalyzerLanguages :
        AnalyzerCall("calculateEnhancedSimilarity", p[1], p[2], language)

CalculateSimilarity ==
    \E p \in AnalyzerPairs, language \in { "cpp", "java" } :
        AnalyzerCall("calculateSimilarity", p[1], p[2], language)

AnalyzerNext == CalculateEnhancedSimilarity \/ CalculateSimilarity

AnalyzerSpec == Init /\ [][AnalyzerNext]_vars

\* -------------------------------------------------------- plagiarismModel
\* (src/index.ts).  An awaited call on the collection either takes effect and
\* resolves, or is rejected and takes no effect; processReport moves from one
\* await to the next in one step, and the calls of different reports interleave.

\* the problemIds a report is created with
ProblemIdLists == { << >>, << 1 >>, << 1, 2 >> }

\* the language groups processReport finds for one problem: what groupByLanguage
\* returns depends on the submissions in the record collection
LanguageGroups == { << >>, << "cpp" >>, << "cpp", "java" >> }

\* the document createReport inserts (results: Null while the field is absent,
\* [value |-> the array] once it is written)
NewReport(problemIds) ==
    [problemIds |-> problemIds, status |-> "pending", results |-> Null, error |-> Null]

\* updateOne with $set: { status: 'processing' } and written results too
SetProcessingAndResults(report) ==
    [report EXCEPT !.status = "processing", !.results = [value |-> << >>]]

\* updateOne with $set: { status: 'processing' }
SetProcessing(report) == [report EXCEPT !.status = "processing"]

\* updateOne with $set: { status: 'completed', results, completedAt }
SetCompleted(report, results) ==
    [report EXCEPT !.status = "completed", !.results = [value |-> results]]

\* updateOne with $set: { status: 'failed', error: error.message }
SetFailed(report, message) ==
    [report EXCEPT !.status = "failed", !.error = message]

\* the entries results.push adds for one problem, one per language group
ResultsOf(problemId, groups) ==
    [k \in 1..Len(groups) |-> [problemId |-> problemId, language |-> groups[k]]]

\* createReport: insertOne, then processReport is called and not awaited; it
\* runs to its first await, the updateOne that has not yet taken effect
CreateReport ==
    /\ Len(reports) < MaxReports
    /\ \E problemIds \in ProblemIdLists :
          /\ reports' = Append(reports, NewReport(problemIds))
          /\ tasks' = Append(tasks, [pc |-> "setProcessing", problemIds |-> << >>,
                                     processedProblems |-> 0, results |-> << >>,
                                     error |-> Null])
    /\ UNCHANGED << gstVars, jplagVars, detectVars, analyzerVars, parserVars, cacheVars >>

\* a rejected await inside the try block: control goes to the catch block
Throw(id, message) ==
    tasks' = [tasks EXCEPT ![id].pc = "catch", ![id].error = message]

\* the first updateOne of processReport
UpdateProcessing(id) ==
    /\ tasks[id].pc = "setProcessing"
    /\ \/ /\ reports' = [reports EXCEPT ![id] = SetProcessing(reports[id])]
          /\ tasks' = [tasks EXCEPT ![id].pc = "findOne"]
       \/ /\ Throw(id, "updateOne")
          /\ UNCHANGED reports
    /\ UNCHANGED << gstVars, jplagVars, detectVars, analyzerVars, parserVars, cacheVars >>

\* findOne: the report read is the document of the collection (no code of the
\* plugin deletes one)
FindReport(id) ==
    /\ tasks[id].pc = "findOne"
    /\ \/ tasks' = [tasks EXCEPT ![id].pc = "problems",
                                 ![id].problemIds = reports[id].problemIds]
       \/ Throw(id, "findOne")
    /\ UNCHANGED << reports, gstVars, jplagVars, detectVars, analyzerVars, parserVars,
                    cacheVars >>

\* one turn of the loop over report.problemIds
ProcessProblem(id) ==
    /\ tasks[id].pc = "problems"
    /\ tasks[id].processedProblems < Len(tasks[id].problemIds)
    /\ \/ \E groups \in LanguageGroups :
             tasks' = [tasks EXCEPT
                          ![id].processedProblems = @ + 1,
                          ![id].results = @ \o
                              ResultsOf(tasks[id].problemIds[tasks[id].processedProblems + 1],
                                        groups)]
       \/ Throw(id, "compare")
    /\ UNCHANGED << reports, gstVars, jplagVars, detectVars, analyzerVars, parserVars,
                    cacheVars >>

\* the updateOne after the loop
UpdateCompleted(id) ==
    /\ tasks[id].pc = "problems"
    /\ tasks[id].processedProblems = Len(tasks[id].problemIds)
    /\ \/ /\ reports' = [reports EXCEPT ![id] = SetCompleted(reports[id], tasks[id].results)]
          /\ tasks' = [tasks EXCEPT ![id].pc = "returned"]
       \/ /\ Throw(id, "updateOne")
          /\ UNCHANGED reports
    /\ UNCHANGED << gstVars, jplagVars, detectVars, analyzerVars, parserVars, cacheVars >>

\* the updateOne of the catch block; rejected, it rejects the promise of
\* processReport, which createReport's .catch(console.error) logs
UpdateFailed(id) ==
    /\ tasks[id].pc = "catch"
    /\ \/ /\ reports' = [reports EXCEPT ![id] = SetFailed(reports[id], tasks[id].error)]
          /\ tasks' = [tasks EXCEPT ![id].pc = "returned"]
       \/ /\ UNCHANGED reports
          /\ tasks' = [tasks EXCEPT ![id].pc = "rejected"]
    /\ UNCHANGED << gstVars, jplagVars, detectVars, analyzerVars, parserVars, cacheVars >>

ProcessReport ==
    \E id \in 1..Len(reports) :
        \/ UpdateProcessing(id)
        \/ FindReport(id)
        \/ ProcessProblem(id)
        \/ UpdateCompleted(id)
        \/ UpdateFailed(id)

ReportNext == CreateReport \/ ProcessReport

ReportSpec == Init /\ [][ReportNext]_vars

\* ---------------------------------------------------------------------------
\* SubmissionCache (src/index.ts): the one instance submissionCache.  A Map is
\* the sequence of its entries in the order of insertion of their keys.

\* the submission ids: one more than the cache holds
CacheKeys == 1..(MaxSize + 1)

\* the documents cached under an id
Submissions == { "first", "second" }

\* Map.prototype.has
MapHas(entries, id) == \E k \in 1..Len(entries) : entries[k].key = id

\* Map.prototype.get, Null for undefined
MapGet(entries, id) ==
    IF MapHas(entries, id)
    THEN entries[CHOOSE k \in 1..Len(entries) : entries[k].key = id].value
    ELSE Null

\* Map.prototype.set: the value of a key that is present is replaced where it
\* is, a new key is added at the end
MapSet(entries, id, value) ==
    IF MapHas(entries, id)
    THEN [k \in 1..Len(entries) |->
             IF entries[k].key = id THEN [key |-> id, value |-> value] ELSE entries[k]]
    ELSE Append(entries, [key |-> id, value |-> value])

\* set with > for >= in its test of the size
setEvictingAbove(entries, id, submission) ==
    MapSet(IF Len(entries) > MaxSize THEN Tail(entries) ELSE entries, id, submission)

\* SubmissionCache.set: cache afterwards (keys().next().value is the key of
\* the first entry)
set(entries, id, submission) ==
    MapSet(IF Len(entries) >= MaxSize THEN Tail(entries) ELSE entries, id, submission)

\* the loop of getBatch from index k on: the result map and the two counters
RECURSIVE getBatchFrom(_, _, _, _)
getBatchFrom(entries, ids, k, acc) ==
    IF k > Len(ids) THEN acc
    ELSE getBatchFrom(entries, ids, k + 1,
             IF MapHas(entries, ids[k])
             THEN [acc EXCEPT !.result = MapSet(@, ids[k], MapGet(entries, ids[k])),
                              !.hitCount = @ + 1]
             ELSE [acc EXCEPT !.missCount = @ + 1])

\* the for loop of processReport that caches the submissions of a problem
RECURSIVE setAll(_, _, _)
setAll(entries, ids, submission) ==
    IF ids = << >> THEN entries
    ELSE setAll(set(entries, Head(ids), submission), Tail(ids), submission)

\* submissionCache.get(id)
CacheGet ==
    /\ hitCount + missCount < MaxCounted
    /\ \E id \in CacheKeys :
           /\ cacheCall' = [op |-> "get", ids |-> << id >>,
                            returned |-> MapGet(cacheEntries, id)]
           /\ IF MapHas(cacheEntries, id)
              THEN hitCount' = hitCount + 1 /\ UNCHANGED missCount
              ELSE missCount' = missCount + 1 /\ UNCHANGED hitCount
    /\ UNCHANGED cacheEntries
    /\ UNCHANGED << gstVars, jplagVars, detectVars, analyzerVars, reportVars, parserVars >>

\* submissionCache.set(id, submission)
CacheSet ==
    /\ \E id \in CacheKeys, submission \in Submissions :
           /\ cacheEntries' = set(cacheEntries, id, submission)
           /\ cacheCall' = [op |-> "set", ids |-> << id >>, returned |-> Null]
    /\ UNCHANGED << hitCount, missCount >>
    /\ UNCHANGED << gstVars, jplagVars, detectVars, analyzerVars, reportVars, parserVars >>

\* submissionCache.getBatch(ids)
CacheGetBatch ==
    /\ \E ids \in SeqsUpTo(CacheKeys, MaxCounted) :
           /\ hitCount + missCount + Len(ids) <= MaxCounted
           /\ \E got \in { getBatchFrom(cacheEntries, ids, 1,
                                         [result |-> << >>, hitCount |-> hitCount,
                                          missCount |-> missCount]) } :
                  /\ hitCount' = got.hitCount
                  /\ missCount' = got.missCount
                  /\ cacheCall' = [op |-> "getBatch", ids |-> ids,
                                   returned |-> got.result]
    /\ UNCHANGED cacheEntries
    /\ UNCHANGED << gstVars, jplagVars, detectVars, analyzerVars, reportVars, parserVars >>

\* submissionCache.clear()
CacheClear ==
    /\ cacheEntries' = << >>
    /\ hitCount' = 0
    /\ missCount' = 0
    /\ cacheCall' = [op |-> "clear", ids |-> << >>, returned |-> Null]
    /\ UNCHANGED << gstVars, jplagVars, detectVars, analyzerVars, reportVars, parserVars >>

\* processReport caching the submissions it found for a problem: the documents
\* of one query, each with its own _id
PrecacheSubmissions ==
    /\ \E ids \in SeqsUpTo(CacheKeys, MaxCounted) :
           /\ \A k, h \in 1..Len(ids) : k # h => ids[k] # ids[h]
           /\ cacheEntries' = setAll(cacheEntries, ids, "first")
           /\ cacheCall' = [op |-> "processReport", ids |-> ids, returned |-> Null]
    /\ UNCHANGED << hitCount, missCount >>
    /\ UNCHANGED << gstVars, jplagVars, detectVars, analyzerVars, reportVars, parserVars >>

CacheNext == CacheGet \/ CacheSet \/ CacheGetBatch \/ CacheClear \/ PrecacheSubmissions

CacheSpec == Init /\ [][CacheNext]_vars

\* ---------------------------------------------------------------------------
\* SimpleStructuralParser (src/jplag-algorithm.ts): one parser, constructed by
\* StructuralTokenizer.tokenize on the cleaned lines of a C++ source, and the
\* turns of the for loop of its extractStructuralTokens.

\* the cleaned lines the parser is run on
ParserLines ==
    { "while (n) {", "if (n) {", "while (n)", "{", "}", "} else {", "x = 1;" }

\* new SimpleStructuralParser(lines, 'cpp', options).extractStructuralTokens()
\* is entered
NewParser ==
    /\ parserPc = "idle"
    /\ \E lines \in SeqsUpTo(ParserLines, MaxParserLines) :
           parserLines' = lines
    /\ parserIndex' = 0
    /\ parserBraceStack' = << >>
    /\ parserTokens' = << >>
    /\ parserPc' = "parsing"
    /\ UNCHANGED << gstVars, jplagVars, detectVars, analyzerVars, reportVars, cacheVars >>

\* one turn of the for loop of extractStructuralTokens
ParseLine ==
    /\ parserPc = "parsing"
    /\ parserIndex < Len(parserLines)
    /\ \E lineTokens \in { parseLine(parserLines[parserIndex + 1], "cpp",
                                     parserBraceStack, parserIndex + 1) } :
           /\ parserTokens' = parserTokens \o lineTokens.tokens
           /\ parserBraceStack' = lineTokens.braceStack
    /\ parserIndex' = parserIndex + 1
    /\ UNCHANGED << parserLines, parserPc >>
    /\ UNCHANGED << gstVars, jplagVars, detectVars, analyzerVars, reportVars, cacheVars >>

\* the for loop ends and extractStructuralTokens returns tokens
ParserReturn ==
    /\ parserPc = "parsing"
    /\ parserIndex >= Len(parserLines)
    /\ parserPc' = "returned"
    /\ UNCHANGED << parserLines, parserIndex, parserBraceStack, parserTokens >>
    /\ UNCHANGED << gstVars, jplagVars, detectVars, analyzerVars, reportVars, cacheVars >>

ParserNext == NewParser \/ ParseLine \/ ParserReturn

ParserSpec == Init /\ [][ParserNext]_vars

\* createReport called for at most MaxLiveReports reports
CreateReportLive ==
    /\ Len(reports) < MaxLiveReports
    /\ CreateReport

ReportNextLive == CreateReportLive \/ ProcessReport

\* the event loop runs a continuation of processReport that is ready: weak
\* fairness on the steps of processReport (none on the calls of createReport)
ReportLiveSpec == Init /\ [][ReportNextLive]_vars /\ WF_vars(ProcessReport)

\* ------------------------------------------------------------------ claims
FirstRange(m) == Range(m.startOfFirst, m.lengthOfFirst)
SecondRange(m) == Range(m.startOfSecond, m.lengthOfSecond)

PairwiseDisjoint(ms) ==
    \A p, q \in 1..Len(ms) :
        p # q => /\ FirstRange(ms[p]) \cap FirstRange(ms[q]) = {}
                 /\ SecondRange(ms[p]) \cap SecondRange(ms[q]) = {}

\* C1: the tiles recorded so far, and the tiles of the result returned, are
\* pairwise disjoint in each sequence: no token index of tokens1 and none of
\* tokens2 lies in two tiles.
C1_TilesDisjoint ==
    /\ PairwiseDisjoint(matches)
    /\ pc = "done" => PairwiseDisjoint(result.matches)

\* a result with two tiles, the second found next to the first in tokens1
C1_Witness ==
    /\ pc = "done"
    /\ Len(result.matches) >= 2
    /\ \E p, q \in 1..Len(result.matches) :
           result.matches[p].startOfFirst + result.matches[p].lengthOfFirst
               = result.matches[q].startOfFirst

\* C2: at every iteration of the loop and in the result, every tile has
\* lengthOfFirst = lengthOfSecond >= options.minimumTokenMatch.
C2_TileLengths ==
    \A p \in 1..Len(matches) :
        /\ matches[p].lengthOfFirst = matches[p].lengthOfSecond
        /\ matches[p].lengthOfFirst >= options.minimumTokenMatch

\* a tile recorded at a start other than (0, 0), with a positive threshold
C2_Witness ==
    /\ options.minimumTokenMatch >= 2
    /\ \E p \in 1..Len(matches) :
           matches[p].startOfFirst # matches[p].startOfSecond

RECURSIVE TileTokens(_)
TileTokens(ms) ==
    IF ms = << >> THEN 0
    ELSE Cardinality(FirstRange(Head(ms))) + TileTokens(Tail(ms))

\* C3: the similarity returned is 2 * matchedTokens / (totalTokens1 + totalTokens2)
\* with matchedTokens the sum of the tiles' lengths, 1 for two empty sequences and
\* 0 for exactly one empty sequence; it lies in [0, 1].
C3_Similarity ==
    pc = "done" =>
        /\ result.totalTokens1 = Len(tokens1)
        /\ result.totalTokens2 = Len(tokens2)
        /\ result.matchedTokens = TileTokens(result.matches)
        /\ (Len(tokens1) = 0 /\ Len(tokens2) = 0) => result.similarity = One
        /\ ((Len(tokens1) = 0) # (Len(tokens2) = 0)) => result.similarity = Zero
        /\ (Len(tokens1) > 0 /\ Len(tokens2) > 0) =>
              /\ result.similarity.den = Len(tokens1) + Len(tokens2)
              /\ result.similarity.num = 2 * TileTokens(result.matches)
        /\ FracLe(Zero, result.similarity)
        /\ FracLe(result.similarity, One)

\* a result of two sequences of different lengths, with a tile, short of 1
C3_Witness ==
    /\ pc = "done"
    /\ Len(tokens1) > Len(tokens2)
    /\ result.matchedTokens > 0
    /\ FracLt(result.similarity, One)

\* C10: compare returns, whatever minimumTokenMatch is, and every iteration
\* that does not leave the loop adds an index to marked1 and one to marked2.
C10_Terminates ==
    /\ (pc = "loop") ~> (pc = "done")
    /\ [][pc = "loop" /\ pc' = "loop" =>
            /\ marked1 \subseteq marked1' /\ marked1' # marked1
            /\ marked2 \subseteq marked2' /\ marked2' # marked2]_vars

\* a run with minimumTokenMatch <= 0 that went round the loop twice and returned
C10_Witness ==
    /\ pc = "done"
    /\ options.minimumTokenMatch <= 0
    /\ Len(result.matches) >= 2

\* the runs findLongestMatch looks at in one pass: the non-empty matches
\* extendMatch returns from the pairs of unmarked starts
Candidates(t1, t2, m1, m2, o) ==
    { c \in { extendMatch(t1, t2, i, j, m1, m2, o) :
                 i \in (0..(Len(t1) - 1)) \ m1, j \in (0..(Len(t2) - 1)) \ m2 } :
        IF c = Null THEN FALSE ELSE c.lengthOfFirst > 0 }

\* the candidates of maximum length: the runs a tie-break chooses among
MaxCandidates(t1, t2, m1, m2, o) ==
    LET C == Candidates(t1, t2, m1, m2, o)
    IN  { c \in C : \A d \in C : d.lengthOfFirst <= c.lengthOfFirst }

\* the totals of matched tokens the tiling can end with when each pass may
\* take any of its candidates of maximum length
RECURSIVE AnyTieBreakTotals(_, _, _, _, _)
AnyTieBreakTotals(t1, t2, m1, m2, o) ==
    LET C == MaxCandidates(t1, t2, m1, m2, o)
    IN  IF C = {} THEN { 0 }
        ELSE UNION { { c.lengthOfFirst + t :
                         t \in AnyTieBreakTotals(t1, t2, m1 \cup FirstRange(c),
                                                 m2 \cup SecondRange(c), o) } :
                     c \in C }

TiesOverlap(C) ==
    \E c, d \in C :
        /\ c # d
        /\ \/ FirstRange(c) \cap FirstRange(d) # {}
           \/ SecondRange(c) \cap SecondRange(d) # {}

\* in no pass of compare do two candidates of maximum length share a token
RECURSIVE NoOverlappingTies(_, _, _, _, _)
NoOverlappingTies(t1, t2, m1, m2, o) ==
    LET longestMatch == findLongestMatch(t1, t2, m1, m2, o)
    IN  IF LoopStops(longestMatch, o) THEN TRUE
        ELSE /\ ~TiesOverlap(MaxCandidates(t1, t2, m1, m2, o))
             /\ NoOverlappingTies(t1, t2, m1 \cup FirstRange(longestMatch),
                                   m2 \cup SecondRange(longestMatch), o)

\* C4: compare(tokens1, tokens2) and compare(tokens2, tokens1) return the same
\* similarity.
C4_Symmetric ==
    pc = "done" =>
        FracEq(result.similarity, compare(tokens2, tokens1, options).similarity)

\* C9: whichever run of maximum length each pass takes, the tiling ends with
\* the matched-token total (hence the similarity) that compare returns.
C9_TieBreakIndependent ==
    pc = "done" =>
        AnyTieBreakTotals(tokens1, tokens2, {}, {}, options) = { result.matchedTokens }

\* C9, amended: the same, for the calls in which no pass has two candidates of
\* maximum length that share a token index.
C9_IndependentWithoutOverlap ==
    (pc = "done" /\ NoOverlappingTies(tokens1, tokens2, {}, {}, options)) =>
        AnyTieBreakTotals(tokens1, tokens2, {}, {}, options) = { result.matchedTokens }

\* a call whose first pass has a tie between runs that do not overlap, and
\* that recorded two tiles
C9_Witness ==
    /\ pc = "done"
    /\ NoOverlappingTies(tokens1, tokens2, {}, {}, options)
    /\ Cardinality(MaxCandidates(tokens1, tokens2, {}, {}, options)) >= 2
    /\ Len(result.matches) >= 2
    /\ options.minimumTokenMatch >= 2

\* the token indices of each side that the tiles of ms cover
CoveredFirst(ms) == UNION { FirstRange(ms[k]) : k \in 1..Len(ms) }
CoveredSecond(ms) == UNION { SecondRange(ms[k]) : k \in 1..Len(ms) }

\* C5: SimpleJPlag.compare of a source with itself returns similarity exactly 1
\* whenever the source tokenizes to at least minimumTokenMatch tokens, and the
\* tiles returned cover every token of both copies.
C5_Identity ==
    (jplagPc = "returned" /\ code1 = code2
        /\ Len(jplagTokens1) >= jplagOptions.minimumTokenMatch)
    => /\ FracEq(returned.similarity, One)
       /\ returned.matchedTokens = Len(jplagTokens1)
       /\ CoveredFirst(returned.matches) = 0..(Len(jplagTokens1) - 1)
       /\ CoveredSecond(returned.matches) = 0..(Len(jplagTokens2) - 1)

\* a source of three tokens compared with itself at minimumTokenMatch 2
C5_Witness ==
    /\ jplagPc = "returned"
    /\ code1 = code2
    /\ jplagOptions.minimumTokenMatch = 2
    /\ Len(jplagTokens1) = 3
    /\ FracEq(returned.similarity, One)

\* a source without text
EmptySource(code) == code = << "" >>

\* C6: SimpleJPlag.compare returns similarity 1 and no tile for two empty
\* sources, and similarity 0 for an empty source and one that has tokens,
\* whatever minimumTokenMatch is.
C6_EmptyInputLaw ==
    jplagPc = "returned"
    => /\ (EmptySource(code1) /\ EmptySource(code2))
            => (FracEq(returned.similarity, One) /\ returned.matches = << >>)
       /\ (EmptySource(code1) /\ jplagTokens2 # << >>)
            => FracEq(returned.similarity, Zero)
       /\ (jplagTokens1 # << >> /\ EmptySource(code2))
            => FracEq(returned.similarity, Zero)

\* C7: when either token sequence has fewer than minimumTokenMatch tokens,
\* SimpleJPlag.compare does not call the matcher and returns similarity 0, no
\* tile and matchedTokens 0, with the two token counts as the totals.
C7_ShortCircuit ==
    (jplagPc = "returned"
        /\ (\/ Len(jplagTokens1) < jplagOptions.minimumTokenMatch
            \/ Len(jplagTokens2) < jplagOptions.minimumTokenMatch))
    => /\ matcherResult = Null
       /\ FracEq(returned.similarity, Zero)
       /\ returned.matches = << >>
       /\ returned.matchedTokens = 0
       /\ returned.totalTokens1 = Len(jplagTokens1)
       /\ returned.totalTokens2 = Len(jplagTokens2)

\* only the first source is too short, and both have tokens
C7_Witness ==
    /\ jplagPc = "returned"
    /\ jplagOptions.minimumTokenMatch = 2
    /\ Len(jplagTokens1) = 1
    /\ Len(jplagTokens2) >= 2
    /\ matcherResult = Null
    /\ returned.totalTokens1 = 1

\* C8: when the matcher ran, SimpleJPlag.compare returns its result with the
\* tile list emptied and everything else as computed if the similarity is
\* below minimumSimilarity, and returns its result unchanged otherwise.
C8_ThresholdGating ==
    (jplagPc = "returned" /\ matcherResult # Null)
    => IF FracLt(matcherResult.similarity, jplagOptions.minimumSimilarity)
       THEN /\ returned.matches = << >>
            /\ returned.similarity = matcherResult.similarity
            /\ returned.totalTokens1 = matcherResult.totalTokens1
            /\ returned.totalTokens2 = matcherResult.totalTokens2
            /\ returned.matchedTokens = matcherResult.matchedTokens
       ELSE returned = matcherResult

\* the matcher found a tile and a positive similarity below the threshold
C8_Witness ==
    /\ jplagPc = "returned"
    /\ matcherResult # Null
    /\ matcherResult.matches # << >>
    /\ FracLt(Zero, matcherResult.similarity)
    /\ FracLt(matcherResult.similarity, jplagOptions.minimumSimilarity)
    /\ returned.matches = << >>
    /\ returned.similarity = matcherResult.similarity


\* tokens2 with the token x put in front of the token of index p (at the end
\* when p is the length)
InsertAt(s, p, x) == SubSeq(s, 1, p) \o << x >> \o SubSeq(s, p + 1, Len(s))

\* position p of the second sequence lies strictly inside a tile of ms
InsideTile(p, ms) ==
    \E k \in 1..Len(ms) :
        ms[k].startOfSecond < p /\ p < ms[k].startOfSecond + ms[k].lengthOfSecond

\* x equals no token of s: another type, or in the mode that compares values
\* another type or another value
Unrelated(x, s, o) ==
    \A k \in 1..Len(s) :
        IF o.extractStructuralTokensOnly THEN s[k].type # x.type
        ELSE s[k].type # x.type \/ s[k].value # x.value

\* the tokens inserted: those of the sequences and two that occur in none
InsertedTokens ==
    TwoTypes \cup { [type |-> "ASSIGN", value |-> "y = 2;"],
                    [type |-> "RETURN", value |-> "return x;"] }

\* C11: inserting into tokens2, outside the tiles of compare(tokens1, tokens2),
\* one or two tokens that equal no token of tokens1 does not raise the
\* similarity.
C11_Monotone ==
    pc = "done" =>
        \A p \in 0..Len(tokens2), x \in InsertedTokens :
            (~InsideTile(p, result.matches) /\ Unrelated(x, tokens1, options))
            => LET once == InsertAt(tokens2, p, x)
                   twice == InsertAt(once, p, x)
               IN  /\ FracLe(compare(tokens1, once, options).similarity,
                             result.similarity)
                   /\ FracLe(compare(tokens1, twice, options).similarity,
                             result.similarity)

\* a call that returned two tiles next to each other in tokens2, where a token
\* put between them lowers the similarity
C11_Witness ==
    /\ pc = "done"
    /\ Len(result.matches) >= 2
    /\ \E p \in 1..(Len(tokens2) - 1), x \in InsertedTokens :
          /\ \E k \in 1..Len(result.matches) : result.matches[k].startOfSecond = p
          /\ \E k \in 1..Len(result.matches) :
                result.matches[k].startOfSecond + result.matches[k].lengthOfSecond = p
          /\ Unrelated(x, tokens1, options)
          /\ FracLt(compare(tokens1, InsertAt(tokens2, p, x), options).similarity,
                    result.similarity)


\* the 1-based number, among the lines of code, of the line each token of
\* SimpleJPlag.compare comes from: line k counted once for every token that
\* the line alone produces
RECURSIVE OriginLines(_, _, _)
OriginLines(code, o, k) ==
    IF k > Len(code) THEN << >>
    ELSE LET n == Len(tokenize(jplagPreprocessCode(<< code[k] >>, o), o.language))
         IN  [h \in 1..n |-> k] \o OriginLines(code, o, k + 1)

\* C12: for each tile, the start and end lines reported for each source are
\* the numbers, in the source as split on newlines, of the lines that produced
\* the first and the last token of the tile, and the fragment is that range of
\* lines of the source.
C12_LineMapping ==
    jplagPc = "detailed" =>
        LET origin1 == OriginLines(code1, jplagOptions, 1)
            origin2 == OriginLines(code2, jplagOptions, 1)
        IN  /\ Len(origin1) = Len(jplagTokens1)
            /\ Len(origin2) = Len(jplagTokens2)
            /\ Len(detailedMatches) = Len(returned.matches)
            /\ \A k \in 1..Len(detailedMatches) :
                 LET d == detailedMatches[k]
                     t == returned.matches[k]
                     first1 == origin1[t.startOfFirst + 1]
                     last1 == origin1[t.startOfFirst + t.lengthOfFirst]
                     first2 == origin2[t.startOfSecond + 1]
                     last2 == origin2[t.startOfSecond + t.lengthOfSecond]
                 IN  /\ d.lines1 = [start |-> first1, end |-> last1]
                     /\ d.lines2 = [start |-> first2, end |-> last2]
                     /\ d.code1Fragment = SubSeq(code1, first1, last1)
                     /\ d.code2Fragment = SubSeq(code2, first2, last2)


\* a configuration the engine may be built with
ValidConfiguration(o) ==
    /\ o.minimumTokenMatch >= 1
    /\ FracLe(Zero, o.minimumSimilarity)
    /\ FracLe(o.minimumSimilarity, One)

\* C13: no comparison runs on an engine built with an invalid configuration:
\* whenever SimpleJPlag.compare has returned, the options of the engine have a
\* minimumTokenMatch of at least 1 and a minimumSimilarity in [0, 1].
C13_InvalidConfigurationRejected ==
    jplagPc = "returned" => ValidConfiguration(jplagOptions)


\* the language tags that parseLine names
RecognizedLanguage(language) ==
    ToLowerCase(language) \in { "cpp", "c++", "java", "python" }

\* the tokens of a source under the rule set of the default language
DefaultRuleTokens(code, o) ==
    LET d == [o EXCEPT !.language = DefaultOptions.language]
    IN  tokenize(jplagPreprocessCode(code, d), d.language)

\* C14: on an engine built with a language tag that parseLine does not name, a
\* source with constructs that the default rule set turns into tokens is not
\* tokenized to the empty sequence.
C14_LanguageFallback ==
    (jplagPc = "returned" /\ ~RecognizedLanguage(jplagOptions.language))
    => /\ DefaultRuleTokens(code1, jplagOptions) # << >> => jplagTokens1 # << >>
       /\ DefaultRuleTokens(code2, jplagOptions) # << >> => jplagTokens2 # << >>


\* the languages whose indicator count is the highest
TopLanguages(scores) ==
    { lang \in DOMAIN scores : \A other \in DOMAIN scores : scores[other] <= scores[lang] }

\* C15: detectLanguage returns the language whose indicator count is strictly
\* the highest, and cpp when two or more languages share the highest count or
\* when every count is zero.
C15_DetectLanguage ==
    detector # "none" =>
        LET top == TopLanguages(indicatorScores)
        IN  IF Cardinality(top) = 1 /\ \E lang \in top : indicatorScores[lang] > 0
            THEN detectedLanguage \in top
            ELSE detectedLanguage = "cpp"

\* a number of [0, 1]
InUnitInterval(x) ==
    IF x = NaN THEN FALSE
    ELSE FracLe(Zero, x) /\ FracLe(x, One)

\* C16: the confidence an analyzer returns is a number of [0, 1] for every pair
\* of codes, the pairs with no token on either side (totalTokens1 +
\* totalTokens2 = 0) and the pairs on which the two similarities disagree by
\* 1 included.
C16_ConfidenceInUnitInterval ==
    IF enhancedResult = Null THEN TRUE
    ELSE /\ InUnitInterval(enhancedResult.confidence)
         /\ InUnitInterval(jplagConfidence)

\* C17: the algorithm label only annotates a result: the score
\* calculateSimilarity hands to its caller is the combined score whatever the
\* label is.
C17_LabelOnlyAnnotates ==
    IF similarityScore = Null THEN TRUE
    ELSE FracEq(similarityScore, enhancedResult.combinedSimilarity)

\* C18: no state leaks between comparisons: what a comparison of (code1, code2,
\* language) returns through a cached engine is what it returns through an
\* engine built for it, whatever was compared on the cached engine before, and
\* each cached engine is still as its constructor built it.
C18_NoStateLeak ==
    IF analyzerCall = Null THEN TRUE
    ELSE /\ enhancedResult =
                calculateEnhancedSimilarity(<< >>, analyzerCall.code1, analyzerCall.code2,
                                            analyzerCall.language).result
         /\ \A l \in DOMAIN jplagInstances :
                jplagInstances[l].options = SimpleJPlagOptions(InstanceOptions(l))

\* a comparison that found a tile, on an engine that was in the cache before it
C18_Witness ==
    IF analyzerCall = Null THEN FALSE
    ELSE /\ analyzerCall.language \in DOMAIN analyzerCall.instancesBefore
         /\ analyzerCall.code1 = LongSource
         /\ analyzerCall.code2 = LongerSource
         /\ Len(enhancedResult.details) = 1

\* C19: the tiles of a result of GreedyStringTiling.compare are in ascending
\* order of startOfFirst, whatever the order in which the loop found them.
C19_TilesAscending ==
    pc = "done" =>
        \A k \in 1..(Len(result.matches) - 1) :
            result.matches[k].startOfFirst <= result.matches[k + 1].startOfFirst

\* a result whose tiles were not found in ascending order of startOfFirst
C19_Witness ==
    /\ pc = "done"
    /\ Len(result.matches) >= 2
    /\ TilingLoop(tokens1, tokens2, << >>, {}, {}, options) # result.matches

\* the moves of a status along pending -> processing -> completed and
\* pending -> processing -> failed
StatusStep(old, new) ==
    \/ old = "pending" /\ new = "processing"
    \/ old = "processing" /\ new \in { "completed", "failed" }

\* results is written only by an update that sets the status to completed
ResultsWithCompleted(id) ==
    reports'[id].results # reports[id].results =>
        reports[id].status # "completed" /\ reports'[id].status = "completed"

Settled(id) ==
    IF Len(reports) < id THEN FALSE
    ELSE reports[id].status \in { "completed", "failed" }

\* the promise of processReport for this report was rejected
Rejected(id) ==
    IF Len(tasks) < id THEN FALSE
    ELSE tasks[id].pc = "rejected"

\* C21: every report createReport inserts eventually has the status completed
\* or failed, a comparison or a query that throws during the processing
\* included; createReport returns without waiting for that.
C21_EventuallySettled ==
    \A id \in 1..MaxLiveReports : [](Len(reports) >= id => <>Settled(id))

\* what processReport does ensure: every report eventually has the status
\* completed or failed, or the update of its catch block was rejected and
\* processReport ended with the status the report had
EventuallySettledOrRejected ==
    \A id \in 1..MaxLiveReports :
        [](Len(reports) >= id => <>(Settled(id) \/ Rejected(id)))

\* tokens1[i..i+k) and tokens2[j..j+k) (0-based) lie within the sequences, are
\* pairwise equal under the configured equality and are all unmarked
CommonRun(i, j, k) ==
    \A d \in 0..(k - 1) :
        /\ i + d < Len(tokens1)
        /\ j + d < Len(tokens2)
        /\ i + d \notin marked1
        /\ j + d \notin marked2
        /\ tokensEqual(tokens1[i + d + 1], tokens2[j + d + 1], options)

\* the length of the forward-extended run from (i, j)
ForwardRun(i, j) ==
    CHOOSE k \in 0..Len(tokens1) : CommonRun(i, j, k) /\ ~CommonRun(i, j, k + 1)

\* the pairs of unmarked start positions
UnmarkedStarts ==
    ((0..(Len(tokens1) - 1)) \ marked1) \X ((0..(Len(tokens2) - 1)) \ marked2)

\* the lengths of the forward-extended runs from the unmarked starts
RunLengths == { ForwardRun(s[1], s[2]) : s \in UnmarkedStarts } \cup { 0 }

\* the maximum of the forward-extended runs over the unmarked starts
LongestRun ==
    CHOOSE k \in 0..Len(tokens1) :
        \E runs \in { RunLengths } : k \in runs /\ \A h \in runs : h <= k

EqualRunOutside(i, j, k, c1, c2) ==
    \A d \in 0..(k - 1) :
        /\ i + d < Len(tokens1)
        /\ j + d < Len(tokens2)
        /\ i + d \notin c1
        /\ j + d \notin c2
        /\ tokensEqual(tokens1[i + d + 1], tokens2[j + d + 1], options)

\* there is a run of k >= 1 tokens, k >= minimumTokenMatch, common to the two
\* sequences outside c1 and c2
RunOfMinimumOutside(c1, c2) ==
    \E i \in 0..(Len(tokens1) - 1), j \in 0..(Len(tokens2) - 1), k \in 1..Len(tokens1) :
        /\ k >= options.minimumTokenMatch
        /\ EqualRunOutside(i, j, k, c1, c2)

\* C23: when GreedyStringTiling.compare has returned, no common run of at least
\* minimumTokenMatch tokens is left among the tokens no tile covers, and the
\* result has a tile if and only if the two sequences have a common run of at
\* least minimumTokenMatch tokens.
C23_NoRunLeft ==
    pc = "done" =>
        /\ ~RunOfMinimumOutside(CoveredFirst(result.matches),
                                CoveredSecond(result.matches))
        /\ Len(result.matches) >= 1 <=> RunOfMinimumOutside({}, {})

\* a result with a tile that leaves uncovered two equal tokens, a common run
\* shorter than minimumTokenMatch
C23_Witness ==
    /\ pc = "done"
    /\ options.minimumTokenMatch = 2
    /\ Len(result.matches) >= 1
    /\ \E i \in 0..(Len(tokens1) - 1), j \in 0..(Len(tokens2) - 1) :
           EqualRunOutside(i, j, 1, CoveredFirst(result.matches),
                           CoveredSecond(result.matches))

\* the tokens at i of tokens1 and j of tokens2 (0-based) exist and are equal
\* under the configured equality
EqualPairAt(i, j) ==
    /\ i \in 0..(Len(tokens1) - 1)
    /\ j \in 0..(Len(tokens2) - 1)
    /\ tokensEqual(tokens1[i + 1], tokens2[j + 1], options)

\* the tile m is a match of tokens1 and tokens2 that no equal pair of tokens
\* outside m1 and m2 extends at either end
MaximalMatch(m, m1, m2) ==
    /\ m.startOfFirst >= 0
    /\ m.startOfSecond >= 0
    /\ m.lengthOfFirst = m.lengthOfSecond
    /\ m.startOfFirst + m.lengthOfFirst <= Len(tokens1)
    /\ m.startOfSecond + m.lengthOfSecond <= Len(tokens2)
    /\ \A k \in 0..(m.lengthOfFirst - 1) :
           /\ EqualPairAt(m.startOfFirst + k, m.startOfSecond + k)
           /\ m.startOfFirst + k \notin m1
           /\ m.startOfSecond + k \notin m2
    /\ ~ /\ EqualPairAt(m.startOfFirst - 1, m.startOfSecond - 1)
         /\ m.startOfFirst - 1 \notin m1
         /\ m.startOfSecond - 1 \notin m2
    /\ ~ /\ EqualPairAt(m.startOfFirst + m.lengthOfFirst,
                        m.startOfSecond + m.lengthOfSecond)
         /\ m.startOfFirst + m.lengthOfFirst \notin m1
         /\ m.startOfSecond + m.lengthOfSecond \notin m2

\* C24: every tile is a maximal match at the moment it is recorded: its ranges
\* lie within the two sequences, its tokens are pairwise equal under the
\* configured equality (and unmarked), and no equal pair of tokens unmarked at
\* that moment extends it by one at either end.
C24_TileMaximal ==
    [][(pc = "loop" /\ Len(matches') = Len(matches) + 1) =>
           MaximalMatch(matches'[Len(matches')], marked1, marked2)]_vars

\* two tiles recorded under type-only equality, the second while the first had
\* marked its tokens, one of them pairing tokens of one type and two values
C24_Witness ==
    /\ pc = "loop"
    /\ options.extractStructuralTokensOnly
    /\ Len(matches) = 2
    /\ MaximalMatch(matches[2], FirstRange(matches[1]), SecondRange(matches[1]))
    /\ \E p \in 1..2 :
           tokens1[matches[p].startOfFirst + 1].value
               # tokens2[matches[p].startOfSecond + 1].value

\* the braces of a line of ParserLines, in the order they stand in it
Braces(line) ==
    CASE line = "while (n) {" -> << "{" >>
      [] line = "if (n) {" -> << "{" >>
      [] line = "{" -> << "{" >>
      [] line = "}" -> << "}" >>
      [] line = "} else {" -> << "}", "{" >>
      [] OTHER -> << >>

RECURSIVE Flatten(_)
Flatten(ss) == IF ss = << >> THEN << >> ELSE Head(ss) \o Flatten(Tail(ss))

\* the braces of the lines
AllBraces(lines) == Flatten([k \in 1..Len(lines) |-> Braces(lines[k])])

\* every closing brace closes an opening one before it, and none is left open
BraceBalanced(lines) ==
    LET bs == AllBraces(lines)
        Opened(n) == Cardinality({ k \in 1..n : bs[k] = "{" })
        Closed(n) == Cardinality({ k \in 1..n : bs[k] = "}" })
    IN  /\ \A n \in 1..Len(bs) : Closed(n) <= Opened(n)
        /\ Closed(Len(bs)) = Opened(Len(bs))

BlockTags ==
    { "CLASS", "STRUCT", "ENUM", "UNION", "FUNCTION", "IF", "FOR", "WHILE", "DO",
      "SWITCH", "TRY", "CATCH" }

\* the tokens of ts whose type is a tag's _END
EndTokens(ts) ==
    { k \in 1..Len(ts) : \E tag \in BlockTags \cup { "undefined" } :
                             ts[k].type = tag \o "_END" }

\* C25: on a brace-balanced source the BEGIN and END tokens of the C/C++
\* structural parser are properly nested: when the parser has returned, every
\* closing brace has popped one tag and emitted its _END token, and the brace
\* stack is empty.
C25_ProperNesting ==
    (parserPc = "returned" /\ BraceBalanced(parserLines)) =>
        /\ parserBraceStack = << >>
        /\ Cardinality(EndTokens(parserTokens))
               = Cardinality({ k \in 1..Len(AllBraces(parserLines)) :
                                 AllBraces(parserLines)[k] = "}" })

\* the tests of extractCppStructuralTokens that push their tag when the line
\* has an opening brace, and those that push it whenever they pass
PushingWithBrace ==
    { "classOrStruct", "enum", "union", "functionDefinition", "if", "for", "while",
      "switch", "catch" }
PushingAlways == { "do", "try" }

\* the number of tags a line pushes
PushedBy(line) ==
    Cardinality(LineFeatures(line) \cap PushingAlways)
        + (IF "{" \in LineFeatures(line)
           THEN Cardinality(LineFeatures(line) \cap PushingWithBrace)
           ELSE 0)

RECURSIVE PushedByAll(_)
PushedByAll(lines) ==
    IF lines = << >> THEN 0 ELSE PushedBy(Head(lines)) + PushedByAll(Tail(lines))

\* C26: stack underflow is a no-op: a line with a closing brace that is parsed
\* while the brace stack is empty (and pushes no tag itself) adds no _END token,
\* leaves the stack empty and the parser in its loop; and at no point are there
\* more _END tokens than tags pushed by the lines parsed so far.
C26_UnderflowNoOp ==
    [][(parserPc = "parsing" /\ parserIndex' = parserIndex + 1) =>
           /\ ( /\ "}" \in SeqRange(Braces(parserLines[parserIndex + 1]))
                /\ parserBraceStack = << >>
                /\ PushedBy(parserLines[parserIndex + 1]) = 0 ) =>
                  /\ Cardinality(EndTokens(parserTokens'))
                         = Cardinality(EndTokens(parserTokens))
                  /\ parserBraceStack' = << >>
                  /\ parserPc' = "parsing"
                  /\ parserLines' = parserLines
           /\ Cardinality(EndTokens(parserTokens'))
                  <= PushedByAll(SubSeq(parserLines, 1, parserIndex'))]_vars

\* a source that starts with a closing brace, parsed to its end: the lines
\* after the brace gave their tokens, the _END of a block among them
C26_Witness ==
    /\ parserPc = "returned"
    /\ Len(parserLines) >= 2
    /\ parserLines[1] = "}"
    /\ EndTokens(parserTokens) # {}
    /\ \A k \in 1..Len(parserTokens) : parserTokens[k].line >= 2

\* C27: the per-language engine cache is append-only: a call of the analyzer
\* constructs at most one engine and only for a language that has none, no
\* entry of jplagInstances is replaced or removed, and getJPlagInstance on a
\* language that has an engine returns that very engine and leaves the map as
\* it is.
C27_CacheAppendOnly ==
    [][ /\ DOMAIN jplagInstances \subseteq DOMAIN jplagInstances'
        /\ \A l \in DOMAIN jplagInstances : jplagInstances'[l] = jplagInstances[l]
        /\ Cardinality(DOMAIN jplagInstances') <= Cardinality(DOMAIN jplagInstances) + 1
        /\ \A l, k \in DOMAIN jplagInstances' :
               l # k => jplagInstances'[l].serial # jplagInstances'[k].serial
        /\ \A l \in DOMAIN jplagInstances' :
               getJPlagInstance(jplagInstances', l)
                   = [instances |-> jplagInstances', jplag |-> jplagInstances'[l]] ]_vars

\* a call for a language whose engine was in the cache, next to the engine of
\* another language
C27_Witness ==
    IF analyzerCall = Null THEN FALSE
    ELSE /\ analyzerCall.language \in DOMAIN analyzerCall.instancesBefore
         /\ Cardinality(DOMAIN jplagInstances) = 2
         /\ analyzerCall.instancesBefore = jplagInstances

\* C28: in every result SimpleJPlag.compare returns (short-circuited,
\* threshold-gated or as the matcher computed it), matchedTokens is the sum of
\* lengthOfFirst over the matches returned, hence 0 when no match is returned.
C28_MatchedTokensIsSum ==
    jplagPc = "returned" =>
        /\ returned.matchedTokens = SumLengths(returned.matches)
        /\ returned.matches = << >> => returned.matchedTokens = 0

\* the types of the tokens of ts, in order
TokenTypes(ts) == [k \in 1..Len(ts) |-> ts[k].type]

\* C29: the token sequences getDetailedMatches indexes with the tiles of a
\* result are the sequences SimpleJPlag.compare matched on for the same two
\* sources (same length, same types in the same order), and no index of a tile
\* is out of their range.
C29_SameTokenSequences ==
    jplagPc = "detailed" =>
        LET indexed1 == tokenize(code1, jplagOptions.language)
            indexed2 == tokenize(code2, jplagOptions.language)
        IN  /\ TokenTypes(indexed1) = TokenTypes(jplagTokens1)
            /\ TokenTypes(indexed2) = TokenTypes(jplagTokens2)
            /\ \A k \in 1..Len(returned.matches) :
                   /\ returned.matches[k].startOfFirst
                          + returned.matches[k].lengthOfFirst <= Len(indexed1)
                   /\ returned.matches[k].startOfSecond
                          + returned.matches[k].lengthOfSecond <= Len(indexed2)

\* the keys of the entries, in the order of their insertion
MapKeys(entries) == [k \in 1..Len(entries) |-> entries[k].key]

\* s without its elements equal to x
Without(s, x) == SelectSeq(s, LAMBDA y : y # x)

\* C30: whatever calls of set, get, getBatch and clear were made, the cache
\* holds at most maxSize entries, each key once; and a set of a key that is not
\* cached, on a full cache, removes the entry whose key was inserted earliest,
\* keeps the others in their order and adds the new one last.
C30_BoundedWithEviction ==
    [][ /\ Len(cacheEntries') <= MaxSize
        /\ \A k, h \in 1..Len(cacheEntries') :
               k # h => cacheEntries'[k].key # cacheEntries'[h].key
        /\ ( /\ cacheCall'.op = "set"
             /\ Len(cacheEntries) >= MaxSize
             /\ ~MapHas(cacheEntries, cacheCall'.ids[1]) ) =>
               /\ MapKeys(cacheEntries')
                      = Tail(MapKeys(cacheEntries)) \o << cacheCall'.ids[1] >>
               /\ \A k \in 2..Len(cacheEntries) :
                      cacheEntries'[k - 1] = cacheEntries[k]
        /\ cacheCall'.op \in { "get", "getBatch" } => cacheEntries' = cacheEntries ]_vars

\* a full cache right after a set that added the key maxSize + 1 as its last
\* entry, the oldest entry left holding the second document, with MaxCounted
\* lookups counted since the last clear
C30_Witness ==
    /\ cacheCall # Null
    /\ cacheCall.op = "set"
    /\ Len(cacheEntries) = MaxSize
    /\ cacheEntries[1].value = "second"
    /\ cacheEntries[Len(cacheEntries)].key = cacheCall.ids[1]
    /\ cacheEntries[Len(cacheEntries)].key = MaxSize + 1
    /\ hitCount + missCount = MaxCounted

====
